---- MODULE Spec2Model ----
(***************************************************************************)
(* The analysis orchestration pipeline of JAKE (runCompetitiveAnalysis)    *)
(* over the record store (analyses and competitors tables).                *)
(*                                                                         *)
(* One analysis record and the single pipeline run that analysis.create    *)
(* launches for it are modelled: every store write of the run is scoped    *)
(* to that record's id.  Every await of the run is one step.  A record     *)
(* store call either takes effect and returns, or throws without effect.   *)
(*                                                                         *)
(* The router procedures on the record (create, get, delete,               *)
(* regenerateContent), the place search, the rate limiters, and the        *)
(* retryWithBackoff and CircuitBreaker utilities each have a               *)
(* specification of their own over the same variables.                     *)
(***************************************************************************)
EXTENDS Integers, Sequences, FiniteSets, TLC

VARIABLES analyses, competitors, run, statusWrites, rpc, search, probe,
          limiter, retry, breaker

vars == <<analyses, competitors, run, statusWrites, rpc, search, probe,
          limiter, retry, breaker>>

\* the state of the request middleware and of the retry and circuit-breaker utilities:
\* the rate limit store and clock, the retryWithBackoff call in hand, one CircuitBreaker
offApp == <<limiter, retry, breaker>>

\* the state outside the record store and the pipeline run: the router call in hand,
\* the place search in hand, the arguments and result of a function applied alone, and
\* the middleware and utilities
offRun == <<rpc, search, probe, limiter, retry, breaker>>

----------------------------------------------------------------------------
(* Bounds *)

\* number of places the maps text search hands to the pipeline
MaxPlaces == 2

----------------------------------------------------------------------------
(* Values *)

NullInt == -1
NullStr == "null"

\* JavaScript truthiness of a nullable number and of a nullable string
Truthy(n) == n # NullInt /\ n # 0
StrTruthy(s) == s # NullStr /\ s # ""

\* x || null
OrNullStr(s) == IF StrTruthy(s) THEN s ELSE NullStr
OrNullInt(n) == IF Truthy(n) THEN n ELSE NullInt

Min(a, b) == IF a < b THEN a ELSE b
Max(a, b) == IF a > b THEN a ELSE b

TheId == 1
TheUser == 1
TargetUrl == "https://joes.example"

\* inputs of analysis.create that pass the zod schema
CreateInputs ==
  [businessName : {"Joe's Coffee"},
   businessUrl : {"", TargetUrl},
   businessLocation : {"Austin, TX"},
   industry : {"", "coffee shop"}]

\* request bodies a client may send to analysis.create; "" also stands for an optional
\* field left out
CreateRequests ==
  [businessName : {"", "Joe's Coffee"},
   businessUrl : {"", TargetUrl, "joes"},
   businessLocation : {"", "Austin, TX"},
   industry : {"", "coffee shop"}]

\* z.string().url(): the string parses as a URL
IsUrl(s) == s \in {TargetUrl}

\* the schema without the check of the location
inputSchema_nameOnly(input) ==
  /\ input.businessName # ""
  /\ (IsUrl(input.businessUrl) \/ input.businessUrl = "")

\* the zod input schema of analysis.create: min(1) is a non-empty string
inputSchema(input) ==
  /\ input.businessName # ""
  /\ (IsUrl(input.businessUrl) \/ input.businessUrl = "")
  /\ input.businessLocation # ""

Terminal == {"completed", "failed"}

----------------------------------------------------------------------------
(* Record store: db.ts *)

\* the row db.createAnalysis inserts; unset columns are NULL, status has its default
NewAnalysisRow(id, data) ==
  [id |-> id,
   userId |-> data.userId,
   businessName |-> data.businessName,
   businessUrl |-> data.businessUrl,
   businessLocation |-> data.businessLocation,
   industry |-> data.industry,
   status |-> data.status,
   seoScore |-> NullInt,
   metaTitle |-> NullStr,
   metaDescription |-> NullStr,
   headingStructure |-> NullStr,
   contentWordCount |-> NullInt,
   hasGoogleBusiness |-> NullInt,
   googleRating |-> NullInt,
   googleReviewCount |-> NullInt,
   socialProfiles |-> NullStr,
   overallAnalysis |-> NullStr,
   strengths |-> NullStr,
   weaknesses |-> NullStr,
   opportunities |-> NullStr,
   recommendations |-> NullStr,
   generatedBlogPost |-> NullStr,
   generatedAdCopy |-> NullStr,
   completedAt |-> NullStr]

\* UPDATE analyses SET data WHERE id = id: rows with another id, and a missing row, are untouched
updateAnalysis(rows, id, data) ==
  { IF r.id = id
      THEN [f \in DOMAIN r |-> IF f \in DOMAIN data THEN data[f] ELSE r[f]]
      ELSE r : r \in rows }

\* SELECT ... WHERE id = id LIMIT 1, as the set of rows found (empty: undefined)
getAnalysisById(rows, id) == { r \in rows : r.id = id }

\* INSERT INTO competitors VALUES data
createCompetitors(rows, data) == rows \o data

\* SELECT ... WHERE analysisId = id
getCompetitorsByAnalysisId(rows, id) == SelectSeq(rows, LAMBDA c : c.analysisId = id)

----------------------------------------------------------------------------
(* Outcomes of the external collaborators *)

\* an HTML fetch (axios.get) returns the page or throws
FetchOutcomes == {"ok", "fail"}

\* invokeLLM: a usable response, a usable response with an empty detectedIndustry,
\* an exception, a response without content, content that is not the expected JSON
LlmOutcomes == {"ok", "okNoIndustry", "throw", "empty", "garbled"}

\* findplacefromtext: request fails, no candidate, a candidate whose first type is listed
MapsOutcomes == {"throw", "zero", "point_of_interest", "bakery"}

----------------------------------------------------------------------------
(* SEO scraper: seoService.analyzeSEO *)

ZeroSeo ==
  [score |-> 0, metaTitle |-> NullStr, metaDescription |-> NullStr,
   headings |-> "{h1:[],h2:[],h3:[]}", wordCount |-> 0, topKeywords |-> "[]"]

\* what the scraper extracts from the page behind a URL that answers
PageSeo ==
  [score |-> 80, metaTitle |-> "title", metaDescription |-> "description",
   headings |-> "{h1:[a],h2:[b,c],h3:[]}", wordCount |-> 600, topKeywords |-> "[coffee]"]

\* never throws: a null url (TypeError on url.startsWith) and a failed fetch are
\* both caught inside and leave the zero-score result
analyzeSEO(url, fetch) ==
  IF url = NullStr \/ fetch = "fail"
    THEN [threw |-> FALSE, res |-> ZeroSeo]
    ELSE [threw |-> FALSE, res |-> PageSeo]

----------------------------------------------------------------------------
(* Presence analyzer: presenceService.analyzeOnlinePresence *)

\* place.types[0].replace(/_/g, " ")
ReplaceUnderscores(t) ==
  CASE t = "point_of_interest" -> "point of interest"
    [] OTHER -> t

analyzeOnlinePresence(maps) ==
  IF maps \in {"throw", "zero"}
    THEN [hasGoogleBusiness |-> FALSE, googleRating |-> NullInt, reviewCount |-> NullInt,
          socialProfiles |-> "{}", primaryType |-> NullStr]
    ELSE [hasGoogleBusiness |-> TRUE, googleRating |-> 45, reviewCount |-> 120,
          socialProfiles |-> "{}", primaryType |-> ReplaceUnderscores(maps)]

----------------------------------------------------------------------------
(* Industry guard: analysisService.runCompetitiveAnalysis, step 3 *)

genericTypes ==
  {"point of interest", "point_of_interest", "establishment", "premise", "subpremise",
   "political", "locality", "route", "intersection", "finance"}

ToLowerCase(t) ==
  CASE t = "Establishment" -> "establishment"
    [] OTHER -> t

\* a guard that takes no type for generic
isGeneric_never(detectedType) == FALSE

\* detectedType && genericTypes.some(t => detectedType.toLowerCase() === t)
isGeneric(detectedType) ==
  StrTruthy(detectedType) /\ ToLowerCase(detectedType) \in genericTypes

----------------------------------------------------------------------------
(* Competitor discovery result and enrichment *)

\* the two shapes of a discovered place: with and without a website
PlaceKinds ==
  { [name |-> "Rival Roasters", website |-> "https://rival.example", rating |-> 45, reviewCount |-> 200],
    [name |-> "Corner Cafe", website |-> NullStr, rating |-> NullInt, reviewCount |-> NullInt] }

\* what discoverCompetitors can return: any list of up to MaxPlaces places
DiscoveryResults ==
  UNION { { [i \in 1..n |-> [name |-> k[i].name, placeId |-> i, website |-> k[i].website,
                             rating |-> k[i].rating, reviewCount |-> k[i].reviewCount]] :
            k \in [1..n -> PlaceKinds] } : n \in 0..MaxPlaces }

\* discoveredCompetitors.slice(0, 5)
MaxCompetitors == 5
Slice(s, n) == SubSeq(s, 1, Min(Len(s), n))

\* enrichmentService.enrichCompetitorData: everything is caught inside, it never throws.
\* Both fetches go to the competitor's site (detectTechStack, estimateCompanySize)
\* and are taken to answer or fail together.
enrichCompetitorData(name, website, fetch) ==
  IF ~StrTruthy(website)
    THEN [threw |-> FALSE,
          res |-> [employeeCount |-> "1-10 (estimated)", fundingInfo |-> "Unknown",
                   techStack |-> "[]", recentNews |-> "[]"]]
    ELSE IF fetch = "ok"
      THEN [threw |-> FALSE,
            res |-> [employeeCount |-> "11-50 (estimated)", fundingInfo |-> "Bootstrapped/Unknown",
                     techStack |-> "[WordPress]", recentNews |-> "[]"]]
      ELSE [threw |-> FALSE,
            res |-> [employeeCount |-> NullStr, fundingInfo |-> NullStr,
                     techStack |-> "[]", recentNews |-> "[]"]]

\* the score with Math.floor in place of Math.round
calculateCompetitiveScore_floor(competitor) ==
  LET seo == IF Truthy(competitor.seoScore) THEN Min(5 * competitor.seoScore, 250) ELSE 0
      rat == IF competitor.googleRating # NullInt THEN (competitor.googleRating - 30) * 10 ELSE 0
      rev == IF Truthy(competitor.googleReviewCount) THEN Min(competitor.googleReviewCount, 150) ELSE 0
      web == IF StrTruthy(competitor.url) THEN 50 ELSE 0
      score == 500 + seo + rat + rev + web
  IN Max(0, Min(100, score \div 10))

\* calculateCompetitiveScore, in tenths of a point (ratings are stored in tenths);
\* Math.round rounds a half up
calculateCompetitiveScore(competitor) ==
  LET seo == IF Truthy(competitor.seoScore) THEN Min(5 * competitor.seoScore, 250) ELSE 0
      rat == IF competitor.googleRating # NullInt THEN (competitor.googleRating - 30) * 10 ELSE 0
      rev == IF Truthy(competitor.googleReviewCount) THEN Min(competitor.googleReviewCount, 150) ELSE 0
      web == IF StrTruthy(competitor.url) THEN 50 ELSE 0
      score == 500 + seo + rat + rev + web
  IN Max(0, Min(100, (score + 5) \div 10))

getThreatLevel(score) ==
  IF score >= 75 THEN "high" ELSE IF score >= 50 THEN "medium" ELSE "low"

\* one task of the fan-out (the async callback of competitorPromises): both calls are
\* awaited, a rejection of either is caught and replaced (null, all-null enrichment),
\* so the task itself never rejects
NullEnrichment ==
  [employeeCount |-> NullStr, fundingInfo |-> NullStr, techStack |-> NullStr, recentNews |-> NullStr]

competitorTask_propagate(analysisId, comp, seoFetch, enrichFetch) ==
  LET seoCall == analyzeSEO(comp.website, seoFetch)
      \* comp.website ? analyzeSEO(comp.website).catch(() => null) : Promise.resolve(null)
      hasSeo == StrTruthy(comp.website) /\ ~seoCall.threw
      compSeo == seoCall.res
      enrichCall == enrichCompetitorData(comp.name, comp.website, enrichFetch)
      enriched == IF enrichCall.threw THEN NullEnrichment ELSE enrichCall.res
      base == [analysisId |-> analysisId, name |-> comp.name, url |-> OrNullStr(comp.website),
               placeId |-> comp.placeId, googleRating |-> comp.rating,
               googleReviewCount |-> OrNullInt(comp.reviewCount),
               seoScore |-> IF hasSeo THEN compSeo.score ELSE NullInt,
               metaTitle |-> IF hasSeo THEN compSeo.metaTitle ELSE NullStr,
               metaDescription |-> IF hasSeo THEN compSeo.metaDescription ELSE NullStr,
               headingStructure |-> IF hasSeo THEN compSeo.headings ELSE NullStr,
               contentWordCount |-> IF hasSeo THEN compSeo.wordCount ELSE NullInt,
               topKeywords |-> IF hasSeo THEN compSeo.topKeywords ELSE NullStr,
               employeeCount |-> enriched.employeeCount, fundingInfo |-> enriched.fundingInfo,
               techStack |-> enriched.techStack, recentNews |-> enriched.recentNews]
      score == calculateCompetitiveScore(base)
  IN [rejected |-> StrTruthy(comp.website) /\ (seoFetch = "fail" \/ enrichFetch = "fail"),
      data |-> [f \in DOMAIN base \cup {"competitiveScore", "threatLevel"} |->
                  IF f = "competitiveScore" THEN score
                  ELSE IF f = "threatLevel" THEN getThreatLevel(score) ELSE base[f]]]

competitorTask(analysisId, comp, seoFetch, enrichFetch) ==
  LET seoCall == analyzeSEO(comp.website, seoFetch)
      \* comp.website ? analyzeSEO(comp.website).catch(() => null) : Promise.resolve(null)
      hasSeo == StrTruthy(comp.website) /\ ~seoCall.threw
      compSeo == seoCall.res
      enrichCall == enrichCompetitorData(comp.name, comp.website, enrichFetch)
      enriched == IF enrichCall.threw THEN NullEnrichment ELSE enrichCall.res
      base == [analysisId |-> analysisId, name |-> comp.name, url |-> OrNullStr(comp.website),
               placeId |-> comp.placeId, googleRating |-> comp.rating,
               googleReviewCount |-> OrNullInt(comp.reviewCount),
               seoScore |-> IF hasSeo THEN compSeo.score ELSE NullInt,
               metaTitle |-> IF hasSeo THEN compSeo.metaTitle ELSE NullStr,
               metaDescription |-> IF hasSeo THEN compSeo.metaDescription ELSE NullStr,
               headingStructure |-> IF hasSeo THEN compSeo.headings ELSE NullStr,
               contentWordCount |-> IF hasSeo THEN compSeo.wordCount ELSE NullInt,
               topKeywords |-> IF hasSeo THEN compSeo.topKeywords ELSE NullStr,
               employeeCount |-> enriched.employeeCount, fundingInfo |-> enriched.fundingInfo,
               techStack |-> enriched.techStack, recentNews |-> enriched.recentNews]
      score == calculateCompetitiveScore(base)
  IN [rejected |-> FALSE,
      data |-> [f \in DOMAIN base \cup {"competitiveScore", "threatLevel"} |->
                  IF f = "competitiveScore" THEN score
                  ELSE IF f = "threatLevel" THEN getThreatLevel(score) ELSE base[f]]]

----------------------------------------------------------------------------
(* AI insights and content generation *)

LlmInsights(industry) ==
  [overallAnalysis |-> "llm analysis", strengths |-> "llm strengths",
   weaknesses |-> "llm weaknesses", opportunities |-> "llm opportunities",
   recommendations |-> "llm recommendations", detectedIndustry |-> industry]

\* the default insights of the catch block; detectedIndustry is not set
FallbackInsights ==
  [overallAnalysis |-> "Unable to generate AI analysis at this time. Please review the competitor data manually.",
   strengths |-> "Data collected successfully",
   weaknesses |-> "AI analysis unavailable",
   opportunities |-> "Review competitor data manually",
   recommendations |-> "Retry Analysis",
   detectedIndustry |-> NullStr]

\* aiInsightsService.generateAIInsights; found is the result of getAnalysisById
\* (reading a field of an undefined analysis is a TypeError inside the try)
generateAIInsights_nocatch(found, llm) ==
  IF found = {} \/ llm \in {"throw", "empty", "garbled"}
    THEN [threw |-> TRUE, res |-> FallbackInsights]
    ELSE [threw |-> FALSE,
          res |-> LlmInsights(IF llm = "ok" THEN "specialty coffee" ELSE "")]

generateAIInsights(found, llm) ==
  IF found = {} \/ llm \in {"throw", "empty", "garbled"}
    THEN [threw |-> FALSE, res |-> FallbackInsights]
    ELSE [threw |-> FALSE,
          res |-> LlmInsights(IF llm = "ok" THEN "specialty coffee" ELSE "")]

BlogNoContent == "Unable to generate blog post. Please try again."
BlogFallback == "Unable to generate blog post at this time. Please try again later."
AdCopyFallback == "[Local Expert / Learn More / google, Discover / Get Started / facebook]"

\* contentService.generateBlogPost: free text, so any string content is the post
generateBlogPost(found, llm) ==
  IF found = {} \/ llm = "throw" THEN BlogFallback
  ELSE IF llm = "empty" THEN BlogNoContent
  ELSE "llm blog post"

\* contentService.generateAdCopy
generateAdCopy(found, llm) ==
  IF llm \in {"throw", "empty", "garbled"} THEN AdCopyFallback ELSE "llm ads"

----------------------------------------------------------------------------
(* State *)

NoError == [kind |-> "none", at |-> "none"]

\* the locals of runCompetitiveAnalysis before its first statement
IdleRun ==
  [pc |-> "idle",
   analysisId |-> TheId,
   analysis |-> {},
   targetSeoData |-> [present |-> FALSE, res |-> ZeroSeo],
   presenceData |-> analyzeOnlinePresence("zero"),
   detectedIndustry |-> NullStr,
   discoveredCompetitors |-> <<>>,
   tasks |-> <<>>,
   competitorDataList |-> <<>>,
   updatedAnalysis |-> {},
   savedCompetitors |-> <<>>,
   llm |-> [insights |-> "none", blog |-> "none", adCopy |-> "none"],
   aiInsights |-> FallbackInsights,
   finalAnalysis |-> {},
   blogPost |-> NullStr,
   adCopy |-> NullStr,
   error |-> NoError]

PendingTask == [state |-> "pending"]

\* no place search in hand
IdleSearch ==
  [pc |-> "idle",
   businessName |-> "",
   results |-> <<>>,
   next |-> 1,
   competitors |-> <<>>,
   returned |-> <<>>]

\* no function applied
IdleProbe ==
  [pc |-> "idle",
   competitor |-> [seoScore |-> NullInt, googleRating |-> NullInt,
                   googleReviewCount |-> NullInt, url |-> NullStr],
   score |-> NullInt]

\* the rate limit store before any request: no entry for the client's key, no API
\* response awaited, no auth request handed on; now is the clock in milliseconds
IdleLimiter ==
  [now |-> 0,
   store |-> {},
   inFlight |-> 0,
   admitted |-> 0,
   answer |-> [route |-> "none", status |-> "none"]]

\* no error thrown by a wrapped function
NoFault == [code |-> NullStr, status |-> NullInt, message |-> NullStr]

\* no retryWithBackoff call in hand
IdleRetry ==
  [pc |-> "idle",
   attempt |-> 0,
   invoked |-> <<>>,
   slept |-> <<>>,
   lastError |-> NoFault,
   outcome |-> [kind |-> "none", value |-> NullInt, error |-> NoFault]]

\* a CircuitBreaker as constructed for the Maps and Forge services, with no call in
\* flight; now is the clock in milliseconds
IdleBreaker ==
  [threshold |-> 5,
   resetTimeout |-> 30000,
   state |-> "closed",
   failures |-> 0,
   lastFailureTime |-> 0,
   now |-> 10000,
   running |-> 0,
   trials |-> 0,
   event |-> "none"]

\* what a router procedure answers: a result, or a TRPCError with its code
NoResponse == [ok |-> FALSE, code |-> "none", id |-> 0, status |-> "none"]
ErrorResponse(code) == [ok |-> FALSE, code |-> code, id |-> 0, status |-> "none"]

\* the router call in hand, before any request has arrived.  launched lists the ids
\* runCompetitiveAnalysis was called with, runCatch tells whether a rejection handler
\* was attached to the promise of the run, returned holds the record data a query
\* handed back
IdleCall ==
  [op |-> "none",
   pc |-> "idle",
   userId |-> 0,
   id |-> 0,
   type |-> "none",
   input |-> [businessName |-> "", businessUrl |-> "", businessLocation |-> "", industry |-> ""],
   analysis |-> {},
   competitorsList |-> <<>>,
   content |-> NullStr,
   response |-> NoResponse,
   launched |-> <<>>,
   runCatch |-> FALSE,
   returned |-> {}]

Init ==
  /\ analyses = {}
  /\ competitors = <<>>
  /\ run = IdleRun
  /\ statusWrites = <<>>
  /\ rpc = IdleCall
  /\ search = IdleSearch
  /\ limiter = IdleLimiter
  /\ retry = IdleRetry
  /\ breaker = IdleBreaker
  /\ probe = IdleProbe

\* a throw inside the try block of runCompetitiveAnalysis: control passes to its catch
Throw(kind, at) ==
  run' = [run EXCEPT !.pc = "catch", !.error = [kind |-> kind, at |-> at]]

\* the statuses that reached the row, in order
LogStatus(data) ==
  statusWrites' =
    IF "status" \in DOMAIN data /\ getAnalysisById(analyses, run.analysisId) # {}
      THEN Append(statusWrites, data.status)
      ELSE statusWrites

\* await db.updateAnalysis(analysisId, data) inside the try block, then continue at next
Update(data, at, next) ==
  \/ /\ analyses' = updateAnalysis(analyses, run.analysisId, data)
     /\ LogStatus(data)
     /\ run' = [run EXCEPT !.pc = next]
     /\ UNCHANGED competitors
  \/ /\ Throw("db", at)
     /\ UNCHANGED <<analyses, competitors, statusWrites>>

----------------------------------------------------------------------------
(* analysis.create: routers.ts *)

\* the row analysis.create hands to db.createAnalysis
CreateRow(input) ==
  NewAnalysisRow(TheId,
    [userId |-> TheUser,
     businessName |-> input.businessName,
     businessUrl |-> OrNullStr(input.businessUrl),
     businessLocation |-> input.businessLocation,
     industry |-> OrNullStr(input.industry),
     status |-> "pending"])

\* a request that fails the input schema never reaches the mutation body
CreateRejected ==
  /\ rpc.pc = "idle"
  /\ run.pc = "idle"
  /\ \E input \in CreateRequests :
       /\ ~inputSchema(input)
       /\ rpc' = [rpc EXCEPT !.op = "create", !.pc = "done", !.userId = TheUser,
                                !.input = input,
                                !.response = ErrorResponse("BAD_REQUEST")]
  /\ UNCHANGED <<analyses, competitors, run, statusWrites, search, probe>>
  /\ UNCHANGED offApp

\* the mutation body without the call of runCompetitiveAnalysis
Create_nolaunch ==
  /\ rpc.pc = "idle"
  /\ run.pc = "idle"
  /\ \E input \in CreateRequests :
       /\ inputSchema(input)
       /\ \/ /\ analyses' = analyses \cup {CreateRow(input)}
             /\ run' = run
             /\ rpc' = [rpc EXCEPT !.op = "create", !.pc = "done", !.userId = TheUser,
                                      !.input = input,
                                      !.response = [ok |-> TRUE, code |-> "OK",
                                                    id |-> TheId, status |-> "pending"]]
          \/ /\ rpc' = [rpc EXCEPT !.op = "create", !.pc = "done", !.userId = TheUser,
                                      !.input = input,
                                      !.response = ErrorResponse("INTERNAL_SERVER_ERROR")]
             /\ UNCHANGED <<analyses, run>>
  /\ UNCHANGED <<competitors, statusWrites, search, probe>>
  /\ UNCHANGED offApp

\* the mutation body: await db.createAnalysis (which stores the row or throws), then the
\* call of runCompetitiveAnalysis, which runs up to its first await and hands back a
\* promise, then .catch on that promise, then the return
Create ==
  /\ rpc.pc = "idle"
  /\ run.pc = "idle"
  /\ \E input \in CreateRequests :
       /\ inputSchema(input)
       /\ \/ /\ analyses' = analyses \cup {CreateRow(input)}
             /\ run' = [run EXCEPT !.pc = "setCollecting"]
             /\ rpc' = [rpc EXCEPT !.op = "create", !.pc = "done", !.userId = TheUser,
                                      !.input = input,
                                      !.launched = Append(@, TheId),
                                      !.runCatch = TRUE,
                                      !.response = [ok |-> TRUE, code |-> "OK",
                                                    id |-> TheId, status |-> "pending"]]
          \/ /\ rpc' = [rpc EXCEPT !.op = "create", !.pc = "done", !.userId = TheUser,
                                      !.input = input,
                                      !.response = ErrorResponse("INTERNAL_SERVER_ERROR")]
             /\ UNCHANGED <<analyses, run>>
  /\ UNCHANGED <<competitors, statusWrites, search, probe>>
  /\ UNCHANGED offApp

----------------------------------------------------------------------------
(* runCompetitiveAnalysis: analysisService.ts *)

\* the first status write left out
SetCollecting_nowrite ==
  /\ run.pc = "setCollecting"
  /\ run' = [run EXCEPT !.pc = "getAnalysis"]
  /\ UNCHANGED <<analyses, competitors, statusWrites>>
  /\ UNCHANGED offRun

SetCollecting ==
  /\ run.pc = "setCollecting"
  /\ Update([status |-> "collecting"], "setCollecting", "getAnalysis")
  /\ UNCHANGED offRun

\* if (analysis.businessUrl)
hasBusinessUrl_always(a) == TRUE

hasBusinessUrl(a) == StrTruthy(a.businessUrl)

GetAnalysis ==
  /\ run.pc = "getAnalysis"
  /\ \/ LET found == getAnalysisById(analyses, run.analysisId) IN
          IF found = {}
            THEN Throw("notfound", "getAnalysis")
            ELSE run' = [run EXCEPT !.analysis = found,
                                    !.pc = IF \E a \in found : hasBusinessUrl(a)
                                             THEN "targetSeo" ELSE "presence"]
     \/ Throw("db", "getAnalysis")
  /\ UNCHANGED <<analyses, competitors, statusWrites>>
  /\ UNCHANGED offRun

TheAnalysis == CHOOSE a \in run.analysis : TRUE

TargetSeo ==
  /\ run.pc = "targetSeo"
  /\ \E fetch \in FetchOutcomes :
       LET call == analyzeSEO(TheAnalysis.businessUrl, fetch) IN
         IF call.threw
           THEN Throw("scrape", "targetSeo")
           ELSE run' = [run EXCEPT !.targetSeoData = [present |-> TRUE, res |-> call.res],
                                   !.pc = "saveSeo"]
  /\ UNCHANGED <<analyses, competitors, statusWrites>>
  /\ UNCHANGED offRun

SaveSeo ==
  /\ run.pc = "saveSeo"
  /\ Update([seoScore |-> run.targetSeoData.res.score,
             metaTitle |-> run.targetSeoData.res.metaTitle,
             metaDescription |-> run.targetSeoData.res.metaDescription,
             headingStructure |-> run.targetSeoData.res.headings,
             contentWordCount |-> run.targetSeoData.res.wordCount],
            "saveSeo", "presence")
  /\ UNCHANGED offRun

Presence ==
  /\ run.pc = "presence"
  /\ \E maps \in MapsOutcomes :
       run' = [run EXCEPT !.presenceData = analyzeOnlinePresence(maps), !.pc = "savePresence"]
  /\ UNCHANGED <<analyses, competitors, statusWrites>>
  /\ UNCHANGED offRun

SavePresence ==
  /\ run.pc = "savePresence"
  /\ Update([hasGoogleBusiness |-> IF run.presenceData.hasGoogleBusiness THEN 1 ELSE 0,
             googleRating |-> run.presenceData.googleRating,
             googleReviewCount |-> run.presenceData.reviewCount,
             socialProfiles |-> run.presenceData.socialProfiles],
            "savePresence", "industry")
  /\ UNCHANGED offRun

\* a guard that lets a specific type replace the industry of the request
DetectIndustry_always ==
  /\ run.pc = "industry"
  /\ LET detectedType == run.presenceData.primaryType IN
       IF StrTruthy(detectedType) /\ ~isGeneric(detectedType)
         THEN \/ /\ analyses' = updateAnalysis(analyses, run.analysisId, [industry |-> detectedType])
                 /\ run' = [run EXCEPT !.detectedIndustry = detectedType, !.pc = "discover"]
              \/ /\ Throw("db", "industry")
                 /\ UNCHANGED analyses
         ELSE /\ run' = [run EXCEPT !.detectedIndustry = TheAnalysis.industry, !.pc = "discover"]
              /\ UNCHANGED analyses
  /\ UNCHANGED <<competitors, statusWrites>>
  /\ UNCHANGED offRun

\* the industry guard; the row is written only when a specific type fills a blank industry
DetectIndustry ==
  /\ run.pc = "industry"
  /\ LET detectedType == run.presenceData.primaryType IN
       IF StrTruthy(detectedType) /\ ~isGeneric(detectedType) /\ ~StrTruthy(TheAnalysis.industry)
         THEN \/ /\ analyses' = updateAnalysis(analyses, run.analysisId, [industry |-> detectedType])
                 /\ run' = [run EXCEPT !.detectedIndustry = detectedType, !.pc = "discover"]
              \/ /\ Throw("db", "industry")
                 /\ UNCHANGED analyses
         ELSE /\ run' = [run EXCEPT !.detectedIndustry = TheAnalysis.industry, !.pc = "discover"]
              /\ UNCHANGED analyses
  /\ UNCHANGED <<competitors, statusWrites>>
  /\ UNCHANGED offRun

\* discoverCompetitors catches everything and returns a list; the map() call starts one
\* task per element of slice(0, 5)
Discover ==
  /\ run.pc = "discover"
  /\ \E d \in DiscoveryResults :
       run' = [run EXCEPT !.discoveredCompetitors = d,
                          !.tasks = [i \in 1..Len(Slice(d, MaxCompetitors)) |-> PendingTask],
                          !.pc = "fanout"]
  /\ UNCHANGED <<analyses, competitors, statusWrites>>
  /\ UNCHANGED offRun

\* one competitor's task runs to its end: SEO scrape and enrichment are awaited together
CompetitorTask ==
  /\ run.pc = "fanout"
  /\ \E i \in 1..Len(run.tasks) :
       /\ run.tasks[i].state = "pending"
       /\ \E seoFetch \in FetchOutcomes, enrichFetch \in FetchOutcomes :
            LET comp == run.discoveredCompetitors[i]
                t == competitorTask(run.analysisId, comp, seoFetch, enrichFetch)
            IN /\ StrTruthy(comp.website) \/ (seoFetch = "ok" /\ enrichFetch = "ok")
               /\ run' = [run EXCEPT !.tasks[i] =
                            [state |-> IF t.rejected THEN "rejected" ELSE "fulfilled",
                             seoFetch |-> seoFetch, enrichFetch |-> enrichFetch,
                             data |-> t.data]]
  /\ UNCHANGED <<analyses, competitors, statusWrites>>
  /\ UNCHANGED offRun

\* a join that goes on with the tasks that have finished so far
JoinCompetitors_early ==
  /\ run.pc = "fanout"
  /\ IF \E i \in 1..Len(run.tasks) : run.tasks[i].state = "rejected"
       THEN Throw("task", "fanout")
       ELSE LET finished == SelectSeq(run.tasks, LAMBDA t : t.state = "fulfilled") IN
              run' = [run EXCEPT !.competitorDataList = [i \in 1..Len(finished) |-> finished[i].data],
                                 !.pc = "saveCompetitors"]
  /\ UNCHANGED <<analyses, competitors, statusWrites>>
  /\ UNCHANGED offRun

\* await Promise.all(competitorPromises): resolves when every task is fulfilled,
\* rejects as soon as one task is rejected
JoinCompetitors ==
  /\ run.pc = "fanout"
  /\ IF \E i \in 1..Len(run.tasks) : run.tasks[i].state = "rejected"
       THEN Throw("task", "fanout")
       ELSE /\ \A i \in 1..Len(run.tasks) : run.tasks[i].state = "fulfilled"
            /\ run' = [run EXCEPT !.competitorDataList = [i \in 1..Len(run.tasks) |-> run.tasks[i].data],
                                  !.pc = "saveCompetitors"]
  /\ UNCHANGED <<analyses, competitors, statusWrites>>
  /\ UNCHANGED offRun

SaveCompetitors ==
  /\ run.pc = "saveCompetitors"
  /\ IF Len(run.competitorDataList) > 0
       THEN \/ /\ competitors' = createCompetitors(competitors, run.competitorDataList)
               /\ run' = [run EXCEPT !.pc = "setAnalyzing"]
            \/ /\ Throw("db", "saveCompetitors")
               /\ UNCHANGED competitors
       ELSE /\ run' = [run EXCEPT !.pc = "setAnalyzing"]
            /\ UNCHANGED competitors
  /\ UNCHANGED <<analyses, statusWrites>>
  /\ UNCHANGED offRun

\* the second status write left out
SetAnalyzing_skip ==
  /\ run.pc = "setAnalyzing"
  /\ run' = [run EXCEPT !.pc = "reload"]
  /\ UNCHANGED <<analyses, competitors, statusWrites>>
  /\ UNCHANGED offRun

SetAnalyzing ==
  /\ run.pc = "setAnalyzing"
  /\ Update([status |-> "analyzing"], "setAnalyzing", "reload")
  /\ UNCHANGED offRun

\* ORDER BY competitiveScore DESC, rows of equal score in insertion order
RECURSIVE OrderByScoreDesc(_)
OrderByScoreDesc(rows) ==
  IF rows = <<>> THEN <<>>
  ELSE LET best == CHOOSE i \in 1..Len(rows) :
                     \A j \in 1..Len(rows) :
                       \/ rows[j].competitiveScore < rows[i].competitiveScore
                       \/ (rows[j].competitiveScore = rows[i].competitiveScore /\ i <= j)
       IN <<rows[best]>> \o
          OrderByScoreDesc([k \in 1..(Len(rows) - 1) |-> IF k < best THEN rows[k] ELSE rows[k + 1]])

\* updatedAnalysis = getAnalysisById, savedCompetitors = getCompetitorsByAnalysisId
Reload ==
  /\ run.pc = "reload"
  /\ \/ run' = [run EXCEPT !.updatedAnalysis = getAnalysisById(analyses, run.analysisId),
                           !.savedCompetitors =
                              OrderByScoreDesc(getCompetitorsByAnalysisId(competitors, run.analysisId)),
                           !.pc = "aiInsights"]
     \/ Throw("db", "reload")
  /\ UNCHANGED <<analyses, competitors, statusWrites>>
  /\ UNCHANGED offRun

AIInsights ==
  /\ run.pc = "aiInsights"
  /\ \E llm \in LlmOutcomes :
       LET call == generateAIInsights(run.updatedAnalysis, llm) IN
         IF call.threw
           THEN run' = [run EXCEPT !.pc = "catch", !.error = [kind |-> "llm", at |-> "aiInsights"],
                                   !.llm.insights = llm]
           ELSE run' = [run EXCEPT !.aiInsights = call.res, !.llm.insights = llm,
                                   !.pc = "saveInsights"]
  /\ UNCHANGED <<analyses, competitors, statusWrites>>
  /\ UNCHANGED offRun

\* industry: aiInsights.detectedIndustry || analysis.industry, analysis being the row
\* as read at the start of the run
SaveInsights ==
  /\ run.pc = "saveInsights"
  /\ Update([overallAnalysis |-> run.aiInsights.overallAnalysis,
             strengths |-> run.aiInsights.strengths,
             weaknesses |-> run.aiInsights.weaknesses,
             opportunities |-> run.aiInsights.opportunities,
             recommendations |-> run.aiInsights.recommendations,
             industry |-> IF StrTruthy(run.aiInsights.detectedIndustry)
                            THEN run.aiInsights.detectedIndustry
                            ELSE TheAnalysis.industry],
            "saveInsights", "loadFinal")
  /\ UNCHANGED offRun

LoadFinal ==
  /\ run.pc = "loadFinal"
  /\ \/ run' = [run EXCEPT !.finalAnalysis = getAnalysisById(analyses, run.analysisId),
                           !.pc = "blog"]
     \/ Throw("db", "loadFinal")
  /\ UNCHANGED <<analyses, competitors, statusWrites>>
  /\ UNCHANGED offRun

\* generateContent(finalAnalysis, savedCompetitors, "all"): the blog post, saved, then
\* the ad copy, saved.  analysis.id of an undefined analysis is a TypeError outside the
\* try blocks of the two generators.
BlogPost ==
  /\ run.pc = "blog"
  /\ \E llm \in {"ok", "throw", "empty"} :
       run' = [run EXCEPT !.blogPost = generateBlogPost(run.finalAnalysis, llm),
                          !.llm.blog = llm,
                          !.pc = "saveBlog"]
  /\ UNCHANGED <<analyses, competitors, statusWrites>>
  /\ UNCHANGED offRun

SaveBlog ==
  /\ run.pc = "saveBlog"
  /\ IF run.finalAnalysis = {}
       THEN Throw("type", "saveBlog") /\ UNCHANGED <<analyses, competitors, statusWrites>>
       ELSE Update([generatedBlogPost |-> run.blogPost], "saveBlog", "adCopy")
  /\ UNCHANGED offRun

AdCopy ==
  /\ run.pc = "adCopy"
  /\ \E llm \in LlmOutcomes \ {"okNoIndustry"} :
       run' = [run EXCEPT !.adCopy = generateAdCopy(run.finalAnalysis, llm),
                          !.llm.adCopy = llm,
                          !.pc = "saveAdCopy"]
  /\ UNCHANGED <<analyses, competitors, statusWrites>>
  /\ UNCHANGED offRun

SaveAdCopy ==
  /\ run.pc = "saveAdCopy"
  /\ Update([generatedAdCopy |-> run.adCopy], "saveAdCopy", "complete")
  /\ UNCHANGED offRun

\* a statement after the final write throws inside the try block
Complete_thenThrow ==
  /\ run.pc = "complete"
  /\ Update([generatedBlogPost |-> run.blogPost,
             generatedAdCopy |-> run.adCopy,
             status |-> "completed",
             completedAt |-> "date"],
            "complete", "catch")
  /\ UNCHANGED offRun

\* the final write without the completion timestamp
Complete_noTimestamp ==
  /\ run.pc = "complete"
  /\ Update([generatedBlogPost |-> run.blogPost,
             generatedAdCopy |-> run.adCopy,
             status |-> "completed"],
            "complete", "done")
  /\ UNCHANGED offRun

Complete ==
  /\ run.pc = "complete"
  /\ Update([generatedBlogPost |-> run.blogPost,
             generatedAdCopy |-> run.adCopy,
             status |-> "completed",
             completedAt |-> "date"],
            "complete", "done")
  /\ UNCHANGED offRun

\* a catch block that records the failure and returns normally
Fail_swallow ==
  /\ run.pc = "catch"
  /\ \/ /\ analyses' = updateAnalysis(analyses, run.analysisId, [status |-> "failed"])
        /\ LogStatus([status |-> "failed"])
     \/ UNCHANGED <<analyses, statusWrites>>
  /\ run' = [run EXCEPT !.pc = "done"]
  /\ UNCHANGED competitors
  /\ UNCHANGED offRun

\* a catch block that records the failure and lets the later stages go on
Fail_resume ==
  /\ run.pc = "catch"
  /\ analyses' = updateAnalysis(analyses, run.analysisId, [status |-> "failed"])
  /\ LogStatus([status |-> "failed"])
  /\ run' = [run EXCEPT !.pc = IF run.error.at = "complete" \/ run.analysis = {}
                                   THEN "rejected" ELSE "reload"]
  /\ UNCHANGED competitors
  /\ UNCHANGED offRun

\* the catch block: status failed is written and the error is thrown again; when the
\* write throws, its error leaves the function instead
Fail ==
  /\ run.pc = "catch"
  /\ \/ /\ analyses' = updateAnalysis(analyses, run.analysisId, [status |-> "failed"])
        /\ LogStatus([status |-> "failed"])
     \/ UNCHANGED <<analyses, statusWrites>>
  /\ run' = [run EXCEPT !.pc = "rejected"]
  /\ UNCHANGED competitors
  /\ UNCHANGED offRun

Next ==
  \/ CreateRejected
  \/ Create
  \/ SetCollecting
  \/ GetAnalysis
  \/ TargetSeo
  \/ SaveSeo
  \/ Presence
  \/ SavePresence
  \/ DetectIndustry
  \/ Discover
  \/ CompetitorTask
  \/ JoinCompetitors
  \/ SaveCompetitors
  \/ SetAnalyzing
  \/ Reload
  \/ AIInsights
  \/ SaveInsights
  \/ LoadFinal
  \/ BlogPost
  \/ SaveBlog
  \/ AdCopy
  \/ SaveAdCopy
  \/ Complete
  \/ Fail

Spec == Init /\ [][Next]_vars

TypeOK ==
  /\ run.pc \in {"idle", "setCollecting", "getAnalysis", "targetSeo", "saveSeo", "presence",
                 "savePresence", "industry", "discover", "fanout", "saveCompetitors",
                 "setAnalyzing", "reload", "aiInsights", "saveInsights", "loadFinal", "blog",
                 "saveBlog", "adCopy", "saveAdCopy", "complete", "catch", "done", "rejected"}
  /\ Cardinality(analyses) <= 1
  /\ Len(competitors) <= MaxCompetitors

----------------------------------------------------------------------------
(* Properties of the pipeline run *)

Rank(status) ==
  CASE status = "pending" -> 0
    [] status = "collecting" -> 1
    [] status = "analyzing" -> 2
    [] status = "completed" -> 3
    [] OTHER -> 4

Ordered == {"pending", "collecting", "analyzing", "completed"}

\* C1: the stored status never moves backward in pending < collecting < analyzing <
\* completed and never leaves completed or failed
C1_StatusMonotonic ==
  [][\A a \in analyses : \A b \in analyses' :
       a.id = b.id =>
         /\ a.status \in Terminal => b.status = a.status
         /\ (a.status \in Ordered /\ b.status \in Ordered) => Rank(b.status) >= Rank(a.status)]_vars

C1_Witness ==
  \E a \in analyses : a.status = "failed" /\ statusWrites = <<"collecting", "analyzing", "failed">>

C3_NoSkipOnSuccess ==
  \A a \in analyses :
    a.status = "completed" => statusWrites = <<"collecting", "analyzing", "completed">>

C3_Witness ==
  run.pc = "done" /\ \E a \in analyses : a.status = "completed" /\ Len(statusWrites) = 3

\* C4 as stated: a run that ended by an exception has left the record failed
C4_ExceptionMarksFailed ==
  (run.pc = "rejected" /\ run.error # NoError) => \A a \in analyses : a.status = "failed"

\* C5 as stated: a run that has ended has left the record completed or failed
C5_EndsTerminal ==
  run.pc \in {"done", "rejected"} => \A a \in analyses : a.status \in Terminal

\* C6: completedAt is set if and only if the status is completed
C6_CompletedAtIffCompleted ==
  \A a \in analyses : (a.completedAt # NullStr) <=> (a.status = "completed")

C6_Witness ==
  \E a \in analyses : a.status = "completed" /\ a.completedAt = "date"

DerivedFields ==
  {"seoScore", "metaTitle", "metaDescription", "headingStructure", "contentWordCount",
   "hasGoogleBusiness", "googleRating", "googleReviewCount", "socialProfiles",
   "overallAnalysis", "strengths", "weaknesses", "opportunities", "recommendations",
   "industry"}

\* C7: once the status is completed or failed, no measured or derived field of the record
\* changes and no competitor record is created
C7_TerminalFrame ==
  [][\A a \in analyses :
       a.status \in Terminal =>
         /\ competitors' = competitors
         /\ \A b \in analyses' : a.id = b.id => \A f \in DerivedFields : b[f] = a[f]]_vars

C7_Witness ==
  /\ run.pc = "rejected"
  /\ run.error.at = "saveCompetitors"
  /\ \E a \in analyses : a.status = "failed" /\ a.overallAnalysis = NullStr
  /\ competitors = <<>>

\* positions of the run after createCompetitors has returned
AfterSave ==
  {"setAnalyzing", "reload", "aiInsights", "saveInsights", "loadFinal", "blog", "saveBlog",
   "adCopy", "saveAdCopy", "complete", "done"}

SeoAbsent(c) ==
  /\ c.seoScore = NullInt /\ c.metaTitle = NullStr /\ c.metaDescription = NullStr
  /\ c.headingStructure = NullStr /\ c.contentWordCount = NullInt /\ c.topKeywords = NullStr

SeoZero(c) ==
  /\ c.seoScore = 0 /\ c.metaTitle = NullStr /\ c.metaDescription = NullStr
  /\ c.headingStructure = "{h1:[],h2:[],h3:[]}" /\ c.contentWordCount = 0 /\ c.topKeywords = "[]"

SeoMeasured(c) ==
  /\ c.seoScore = 80 /\ c.metaTitle = "title" /\ c.metaDescription = "description"
  /\ c.headingStructure = "{h1:[a],h2:[b,c],h3:[]}" /\ c.contentWordCount = 600
  /\ c.topKeywords = "[coffee]"

EnrichAbsent(c) ==
  c.employeeCount = NullStr /\ c.fundingInfo = NullStr /\ c.techStack = "[]" /\ c.recentNews = "[]"

EnrichMeasured(c) ==
  /\ c.employeeCount = "11-50 (estimated)" /\ c.fundingInfo = "Bootstrapped/Unknown"
  /\ c.techStack = "[WordPress]" /\ c.recentNews = "[]"

\* every discovered competitor is stored, and each stored row depends on its own place
\* and on the outcome of its own two calls only; SeoFailed(c) is what a failed scrape leaves
FanOutIsolated(SeoFailed(_)) ==
  /\ run.pc \in AfterSave => Len(competitors) = Len(run.discoveredCompetitors)
  /\ competitors # <<>> => Len(competitors) = Len(run.discoveredCompetitors)
  /\ \A i \in 1..Len(competitors) :
       LET c == competitors[i]
           comp == run.discoveredCompetitors[i]
           t == run.tasks[i]
       IN /\ c.analysisId = run.analysisId /\ c.name = comp.name /\ c.placeId = comp.placeId
          /\ IF StrTruthy(comp.website)
               THEN /\ t.seoFetch = "ok" => SeoMeasured(c)
                    /\ t.seoFetch = "fail" => SeoFailed(c)
                    /\ t.enrichFetch = "ok" => EnrichMeasured(c)
                    /\ t.enrichFetch = "fail" => EnrichAbsent(c)
               ELSE /\ SeoAbsent(c)
                    /\ c.employeeCount = "1-10 (estimated)" /\ c.fundingInfo = "Unknown"
  /\ \A a \in analyses : a.status = "failed" => run.error.kind \notin {"task", "scrape"}

LlmFailed == {"throw", "empty", "garbled"}

\* C9: an LLM failure never fails the run: the fallback payload is stored, and a run that
\* did not complete was stopped by the record store, not by the LLM
C9_LlmFailureFallsBack ==
  /\ run.pc \in {"catch", "rejected"} => run.error.kind # "llm"
  /\ \A a \in analyses :
       /\ a.status = "failed" => run.error.kind # "llm"
       /\ run.pc = "done" => a.status = "completed"
       /\ (run.pc \in {"loadFinal", "blog", "saveBlog", "adCopy", "saveAdCopy", "complete", "done"}
             /\ run.llm.insights \in LlmFailed)
            => /\ a.overallAnalysis = FallbackInsights.overallAnalysis
               /\ a.strengths = FallbackInsights.strengths
               /\ a.weaknesses = FallbackInsights.weaknesses
               /\ a.opportunities = FallbackInsights.opportunities
               /\ a.recommendations = FallbackInsights.recommendations
       /\ (run.pc \in {"adCopy", "saveAdCopy", "complete", "done"} /\ run.llm.blog = "throw")
            => a.generatedBlogPost = BlogFallback
       /\ (run.pc \in {"adCopy", "saveAdCopy", "complete", "done"} /\ run.llm.blog = "empty")
            => a.generatedBlogPost = BlogNoContent
       /\ (run.pc \in {"complete", "done"} /\ run.llm.adCopy \in LlmFailed)
            => a.generatedAdCopy = AdCopyFallback

C9_Witness ==
  /\ run.pc = "done"
  /\ run.llm.insights = "garbled" /\ run.llm.blog = "throw" /\ run.llm.adCopy = "empty"
  /\ \E a \in analyses :
       /\ a.status = "completed"
       /\ a.overallAnalysis = FallbackInsights.overallAnalysis
       /\ a.generatedBlogPost = BlogFallback
       /\ a.generatedAdCopy = AdCopyFallback

\* C10: without a business URL the target scrape never runs and the five SEO fields stay
\* null, and only a record-store failure keeps the run from completed
C10_NoUrlNoSeo ==
  \A a \in analyses :
    a.businessUrl = NullStr =>
      /\ ~run.targetSeoData.present
      /\ a.seoScore = NullInt /\ a.metaTitle = NullStr /\ a.metaDescription = NullStr
      /\ a.headingStructure = NullStr /\ a.contentWordCount = NullInt
      /\ run.pc \notin {"targetSeo", "saveSeo"}
      /\ run.pc \in {"catch", "rejected"} =>
           (run.error.kind = "db" /\ run.error.at \notin {"targetSeo", "saveSeo"})

C10_Witness ==
  /\ run.pc = "done"
  /\ \E a \in analyses :
       a.businessUrl = NullStr /\ a.status = "completed" /\ a.seoScore = NullInt

----------------------------------------------------------------------------
(* Properties of analysis.create *)

PendingResponse == [ok |-> TRUE, code |-> "OK", id |-> TheId, status |-> "pending"]

\* a step in which analysis.create answers a request
CreateAnswers == rpc.pc = "idle" /\ rpc'.op = "create" /\ rpc'.pc = "done"

\* C11: when analysis.create answers a valid request with a result, the step has stored a
\* new row with status pending whose URL and industry are null where the request left
\* them empty, has started exactly one run for the id of that row, and answers
\* {id, status: "pending"} while that run is still at its first await; afterwards no step
\* of the run changes the answer or starts another run
C11_CreateRespondsPending ==
  [][ /\ (CreateAnswers /\ rpc'.response.ok) =>
           /\ rpc'.response = PendingResponse
           /\ \E a \in analyses' \ analyses :
                /\ a.id = rpc'.response.id
                /\ a.status = "pending"
                /\ a.businessName = rpc'.input.businessName
                /\ a.businessLocation = rpc'.input.businessLocation
                /\ a.businessUrl =
                     (IF rpc'.input.businessUrl = "" THEN NullStr ELSE rpc'.input.businessUrl)
                /\ a.industry =
                     (IF rpc'.input.industry = "" THEN NullStr ELSE rpc'.input.industry)
           /\ Cardinality(analyses') = Cardinality(analyses) + 1
           /\ rpc'.launched = <<rpc'.response.id>>
           /\ run'.analysisId = rpc'.response.id
           /\ run'.pc = "setCollecting"
      /\ (rpc.op = "create" /\ rpc.pc = "done") => rpc' = rpc
    ]_vars

\* the run has failed and recorded it, the request had no URL, and the answer stands
C11_Witness ==
  /\ rpc.response = PendingResponse
  /\ rpc.input.businessUrl = ""
  /\ run.pc = "rejected"
  /\ \E a \in analyses : a.status = "failed" /\ a.businessUrl = NullStr

\* C12: analysis.create answers a request with an empty business name or an empty
\* location with an error, and that step changes no analysis row, no competitor row and
\* starts no run
C12_InvalidInputRejected ==
  [][ (CreateAnswers /\ (rpc'.input.businessName = "" \/ rpc'.input.businessLocation = "")) =>
        /\ ~rpc'.response.ok
        /\ rpc'.response.code = "BAD_REQUEST"
        /\ rpc'.launched = <<>>
        /\ UNCHANGED <<analyses, competitors, run, statusWrites>>
    ]_vars

\* a request with a name and no location has been answered
C12_Witness ==
  /\ rpc.op = "create"
  /\ rpc.pc = "done"
  /\ rpc.input.businessName # ""
  /\ rpc.input.businessLocation = ""
  /\ rpc.response.code = "BAD_REQUEST"
  /\ analyses = {}

----------------------------------------------------------------------------
(* analysis.regenerateContent: routers.ts, contentService.generateContent *)

OtherUser == 2
NoUser == 0
MissingId == 2

\* who calls a procedure: the owner, another signed-in user, nobody signed in
Callers == {TheUser, OtherUser, NoUser}
Ids == {TheId, MissingId}
ContentTypes == {"blog", "adCopy", "all"}

\* the rows competitorPromises yields for a list of places whose sites all answer
CompetitorRows(d) ==
  [i \in 1..Len(d) |-> competitorTask(TheId, d[i], "ok", "ok").data]

\* the row of an analysis after a run that completed: the site, when a URL was given,
\* answered; the place lookup found nothing; the insights came from the LLM without a
\* detected industry; llm is what the LLM did with the two content prompts
CompletedRow(input, llm) ==
  LET created == CreateRow(input)
      seo == analyzeSEO(created.businessUrl, "ok").res
      presenceData == analyzeOnlinePresence("zero")
      aiInsights == generateAIInsights({created}, "okNoIndustry").res
  IN [created EXCEPT
        !.status = "completed",
        !.completedAt = "date",
        !.seoScore = IF hasBusinessUrl(created) THEN seo.score ELSE NullInt,
        !.metaTitle = IF hasBusinessUrl(created) THEN seo.metaTitle ELSE NullStr,
        !.metaDescription = IF hasBusinessUrl(created) THEN seo.metaDescription ELSE NullStr,
        !.headingStructure = IF hasBusinessUrl(created) THEN seo.headings ELSE NullStr,
        !.contentWordCount = IF hasBusinessUrl(created) THEN seo.wordCount ELSE NullInt,
        !.hasGoogleBusiness = 0,
        !.googleRating = presenceData.googleRating,
        !.googleReviewCount = presenceData.reviewCount,
        !.socialProfiles = presenceData.socialProfiles,
        !.overallAnalysis = aiInsights.overallAnalysis,
        !.strengths = aiInsights.strengths,
        !.weaknesses = aiInsights.weaknesses,
        !.opportunities = aiInsights.opportunities,
        !.recommendations = aiInsights.recommendations,
        !.generatedBlogPost = generateBlogPost({created}, llm),
        !.generatedAdCopy = generateAdCopy({created}, llm)]

\* the store holds one completed analysis and its competitors, the run has ended, and
\* no request is in hand
InitCompleted ==
  /\ \E input \in CreateInputs, llm \in {"ok", "throw"} :
       analyses = {CompletedRow(input, llm)}
  /\ \E d \in DiscoveryResults : competitors = CompetitorRows(d)
  /\ run = [IdleRun EXCEPT !.pc = "done"]
  /\ statusWrites = <<"collecting", "analyzing", "completed">>
  /\ rpc = IdleCall
  /\ search = IdleSearch
  /\ limiter = IdleLimiter
  /\ retry = IdleRetry
  /\ breaker = IdleBreaker
  /\ probe = IdleProbe

\* the procedure ends with a TRPCError, or with an error thrown through it
Answer(req, code) == [req EXCEPT !.pc = "done", !.response = ErrorResponse(code)]

\* the procedure returns its result
Return(req) ==
  [req EXCEPT !.pc = "done",
              !.response = [ok |-> TRUE, code |-> "OK", id |-> req.id, status |-> "none"]]

\* the request arrives and the analysis is read: NOT_FOUND, FORBIDDEN, or on to the
\* content generation; ctx.user.id of a caller who is not signed in is a TypeError
RegenerateContent ==
  /\ rpc.pc = "idle"
  /\ \E user \in Callers, id \in Ids, type \in ContentTypes :
       LET req == [rpc EXCEPT !.op = "regenerateContent", !.userId = user, !.id = id,
                              !.type = type]
           found == getAnalysisById(analyses, id)
       IN \/ rpc' = IF found = {} THEN Answer(req, "NOT_FOUND")
                     ELSE IF user = NoUser THEN Answer(req, "INTERNAL_SERVER_ERROR")
                     ELSE IF \E a \in found : a.userId # user THEN Answer(req, "FORBIDDEN")
                     ELSE [req EXCEPT !.analysis = found, !.pc = "competitors"]
          \/ rpc' = Answer(req, "INTERNAL_SERVER_ERROR")
  /\ UNCHANGED <<analyses, competitors, run, statusWrites, search, probe>>
  /\ UNCHANGED offApp

\* competitorsList = await db.getCompetitorsByAnalysisId(input.id)
RegenCompetitors ==
  /\ rpc.pc = "competitors"
  /\ \/ rpc' = [rpc EXCEPT !.competitorsList =
                               OrderByScoreDesc(getCompetitorsByAnalysisId(competitors, rpc.id)),
                            !.pc = IF rpc.type \in {"blog", "all"} THEN "blog" ELSE "adCopy"]
     \/ rpc' = Answer(rpc, "INTERNAL_SERVER_ERROR")
  /\ UNCHANGED <<analyses, competitors, run, statusWrites, search, probe>>
  /\ UNCHANGED offApp

\* result.blogPost = await generateBlogPost(...)
RegenBlog ==
  /\ rpc.pc = "blog"
  /\ \E llm \in {"ok", "throw", "empty"} :
       rpc' = [rpc EXCEPT !.content = generateBlogPost(rpc.analysis, llm), !.pc = "saveBlog"]
  /\ UNCHANGED <<analyses, competitors, run, statusWrites, search, probe>>
  /\ UNCHANGED offApp

\* a save of the blog post that also stamps the completion time
RegenSaveBlog_stamp ==
  /\ rpc.pc = "saveBlog"
  /\ \/ /\ analyses' = updateAnalysis(analyses, rpc.id,
                          [generatedBlogPost |-> rpc.content, completedAt |-> "later"])
        /\ rpc' = IF rpc.type = "all" THEN [rpc EXCEPT !.pc = "adCopy"] ELSE Return(rpc)
     \/ /\ rpc' = Answer(rpc, "INTERNAL_SERVER_ERROR")
        /\ UNCHANGED analyses
  /\ UNCHANGED <<competitors, run, statusWrites, search, probe>>
  /\ UNCHANGED offApp

\* await db.updateAnalysis(analysis.id, { generatedBlogPost: result.blogPost })
RegenSaveBlog ==
  /\ rpc.pc = "saveBlog"
  /\ \/ /\ analyses' = updateAnalysis(analyses, rpc.id, [generatedBlogPost |-> rpc.content])
        /\ rpc' = IF rpc.type = "all" THEN [rpc EXCEPT !.pc = "adCopy"] ELSE Return(rpc)
     \/ /\ rpc' = Answer(rpc, "INTERNAL_SERVER_ERROR")
        /\ UNCHANGED analyses
  /\ UNCHANGED <<competitors, run, statusWrites, search, probe>>
  /\ UNCHANGED offApp

\* result.adCopy = await generateAdCopy(...)
RegenAdCopy ==
  /\ rpc.pc = "adCopy"
  /\ \E llm \in LlmOutcomes \ {"okNoIndustry"} :
       rpc' = [rpc EXCEPT !.content = generateAdCopy(rpc.analysis, llm), !.pc = "saveAdCopy"]
  /\ UNCHANGED <<analyses, competitors, run, statusWrites, search, probe>>
  /\ UNCHANGED offApp

\* await db.updateAnalysis(analysis.id, { generatedAdCopy: result.adCopy })
RegenSaveAdCopy ==
  /\ rpc.pc = "saveAdCopy"
  /\ \/ /\ analyses' = updateAnalysis(analyses, rpc.id, [generatedAdCopy |-> rpc.content])
        /\ rpc' = Return(rpc)
     \/ /\ rpc' = Answer(rpc, "INTERNAL_SERVER_ERROR")
        /\ UNCHANGED analyses
  /\ UNCHANGED <<competitors, run, statusWrites, search, probe>>
  /\ UNCHANGED offApp

NextRegen ==
  \/ RegenerateContent
  \/ RegenCompetitors
  \/ RegenBlog
  \/ RegenSaveBlog
  \/ RegenAdCopy
  \/ RegenSaveAdCopy

\* one regenerateContent request on a store that holds a completed analysis
SpecRegen == InitCompleted /\ [][NextRegen]_vars

----------------------------------------------------------------------------
(* Properties of analysis.regenerateContent *)

\* the columns in which two rows differ
Changed(a, b) == {f \in DOMAIN a : a[f] # b[f]}

Targeted(type) ==
  CASE type = "blog" -> {"generatedBlogPost"}
    [] type = "adCopy" -> {"generatedAdCopy"}
    [] type = "all" -> {"generatedBlogPost", "generatedAdCopy"}

\* C13: no step of a regenerateContent call on a completed analysis changes the
\* competitor rows, adds or removes an analysis row, or changes a column of the row
\* other than the content columns of the requested type (so status and completedAt
\* stay); a save that succeeds leaves the generated text in its column
C13_RegenerateFrame ==
  [][ rpc'.op = "regenerateContent" =>
        /\ competitors' = competitors
        /\ statusWrites' = statusWrites
        /\ \A a \in analyses : a.status = "completed" =>
             \E b \in analyses' : b.id = a.id /\ Changed(a, b) \subseteq Targeted(rpc'.type)
        /\ Cardinality(analyses') = Cardinality(analyses)
        /\ (rpc.pc = "saveBlog" /\ rpc'.response.code # "INTERNAL_SERVER_ERROR") =>
             \A b \in analyses' : b.id = rpc.id => b.generatedBlogPost = rpc.content
        /\ (rpc.pc = "saveAdCopy" /\ rpc'.response.code # "INTERNAL_SERVER_ERROR") =>
             \A b \in analyses' : b.id = rpc.id => b.generatedAdCopy = rpc.content
    ]_vars

\* a blog regeneration has replaced the fallback post of a completed analysis that has
\* competitors, and the fallback ads are still there
C13_Witness ==
  /\ rpc.op = "regenerateContent"
  /\ rpc.type = "blog"
  /\ rpc.pc = "done"
  /\ rpc.response.ok
  /\ Len(competitors) > 0
  /\ \E a \in analyses :
       /\ a.status = "completed"
       /\ a.completedAt = "date"
       /\ a.generatedBlogPost = "llm blog post"
       /\ a.generatedAdCopy = AdCopyFallback

----------------------------------------------------------------------------
(* Competitor discovery: competitorDiscoveryService.ts *)

\* length of a list of search results with places of every kind
MaxResults == 2

\* length of a list of search results with ordinary places and copies of the target
MaxCrowd == 7

\* a string as the sequence of its characters
Chars(s) ==
  CASE
       s = "Joe's Coffee" -> <<"J", "o", "e", "'", "s", " ", "C", "o", "f", "f", "e", "e">>
    [] s = "RIVAL" -> <<"R", "I", "V", "A", "L">>
    [] s = "Joe's Coffee Downtown" -> <<"J", "o", "e", "'", "s", " ", "C", "o", "f", "f", "e", "e", " ", "D", "o", "w", "n", "t", "o", "w", "n">>
    [] s = "JOE'S COFFEE" -> <<"J", "O", "E", "'", "S", " ", "C", "O", "F", "F", "E", "E">>
    [] s = "Joe's" -> <<"J", "o", "e", "'", "s">>
    [] s = "Yelp Austin" -> <<"Y", "e", "l", "p", " ", "A", "u", "s", "t", "i", "n">>
    [] s = "Rival Roasters" -> <<"R", "i", "v", "a", "l", " ", "R", "o", "a", "s", "t", "e", "r", "s">>
    [] s = "Corner Cafe" -> <<"C", "o", "r", "n", "e", "r", " ", "C", "a", "f", "e">>
    [] s = "network" -> <<"n", "e", "t", "w", "o", "r", "k">>
    [] s = "timeout" -> <<"t", "i", "m", "e", "o", "u", "t">>
    [] s = "socket hang up" -> <<"s", "o", "c", "k", "e", "t", " ", "h", "a", "n", "g", " ", "u", "p">>
    [] s = "Network Error" -> <<"N", "e", "t", "w", "o", "r", "k", " ", "E", "r", "r", "o", "r">>
    [] s = "timeout of 10000ms exceeded" -> <<"t", "i", "m", "e", "o", "u", "t", " ", "o", "f", " ", "1", "0", "0", "0", "0", "m", "s", " ", "e", "x", "c", "e", "e", "d", "e", "d">>
    [] s = "Invalid API key" -> <<"I", "n", "v", "a", "l", "i", "d", " ", "A", "P", "I", " ", "k", "e", "y">>
    [] s = "Request failed with status code 503" -> <<"R", "e", "q", "u", "e", "s", "t", " ", "f", "a", "i", "l", "e", "d", " ", "w", "i", "t", "h", " ", "s", "t", "a", "t", "u", "s", " ", "c", "o", "d", "e", " ", "5", "0", "3">>
    [] s = "Request failed with status code 404" -> <<"R", "e", "q", "u", "e", "s", "t", " ", "f", "a", "i", "l", "e", "d", " ", "w", "i", "t", "h", " ", "s", "t", "a", "t", "u", "s", " ", "c", "o", "d", "e", " ", "4", "0", "4">>

\* String.prototype.toLowerCase, one character
LowerChar(c) ==
  CASE
       c = "A" -> "a"
    [] c = "B" -> "b"
    [] c = "C" -> "c"
    [] c = "D" -> "d"
    [] c = "E" -> "e"
    [] c = "F" -> "f"
    [] c = "G" -> "g"
    [] c = "H" -> "h"
    [] c = "I" -> "i"
    [] c = "J" -> "j"
    [] c = "K" -> "k"
    [] c = "L" -> "l"
    [] c = "M" -> "m"
    [] c = "N" -> "n"
    [] c = "O" -> "o"
    [] c = "P" -> "p"
    [] c = "Q" -> "q"
    [] c = "R" -> "r"
    [] c = "S" -> "s"
    [] c = "T" -> "t"
    [] c = "U" -> "u"
    [] c = "V" -> "v"
    [] c = "W" -> "w"
    [] c = "X" -> "x"
    [] c = "Y" -> "y"
    [] c = "Z" -> "z"
    [] OTHER -> c

\* String.prototype.toLowerCase
toLowerCase(cs) == [i \in 1..Len(cs) |-> LowerChar(cs[i])]

\* String.prototype.includes: needle occurs in hay as a run of consecutive characters
includes(hay, needle) ==
  \E i \in 0..(Len(hay) - Len(needle)) : SubSeq(hay, i + 1, i + Len(needle)) = needle

directories ==
  {<<"y", "e", "l", "p">>,
   <<"a", "n", "g", "i">>,
   <<"a", "n", "g", "i", "e", "'", "s", " ", "l", "i", "s", "t">>,
   <<"t", "h", "u", "m", "b", "t", "a", "c", "k">>,
   <<"h", "o", "m", "e", "a", "d", "v", "i", "s", "o", "r">>,
   <<"y", "e", "l", "l", "o", "w", "p", "a", "g", "e", "s">>,
   <<"y", "e", "l", "l", "o", "w", " ", "p", "a", "g", "e", "s">>,
   <<"b", "b", "b">>,
   <<"b", "e", "t", "t", "e", "r", " ", "b", "u", "s", "i", "n", "e", "s", "s", " ", "b", "u", "r", "e", "a", "u">>,
   <<"g", "o", "o", "g", "l", "e">>,
   <<"f", "a", "c", "e", "b", "o", "o", "k">>,
   <<"l", "i", "n", "k", "e", "d", "i", "n">>,
   <<"i", "n", "s", "t", "a", "g", "r", "a", "m">>}

\* isLargeDirectory
isLargeDirectory(name) ==
  LET nameLower == toLowerCase(Chars(name)) IN
    \E dir \in directories : includes(nameLower, dir)

\* the test of the target business with its second half left out
isSelfMatch_oneWay(placeName, excludeBusinessName) ==
  LET excludeNameLower == toLowerCase(Chars(excludeBusinessName)) IN
    includes(toLowerCase(Chars(placeName)), excludeNameLower)

\* place.name.toLowerCase().includes(excludeNameLower) ||
\* excludeNameLower.includes(place.name.toLowerCase())
isSelfMatch(placeName, excludeBusinessName) ==
  LET excludeNameLower == toLowerCase(Chars(excludeBusinessName)) IN
    \/ includes(toLowerCase(Chars(placeName)), excludeNameLower)
    \/ includes(excludeNameLower, toLowerCase(Chars(placeName)))

\* if (competitors.length >= 5) break
SearchLimit == 5

\* business names of the analyses whose competitors are searched
TargetNames == {"Joe's Coffee", "RIVAL"}

\* places the text search can list besides those of PlaceKinds: all without a website
NamesakeKinds ==
  { [name |-> n, website |-> NullStr, rating |-> NullInt, reviewCount |-> NullInt] :
      n \in {"Joe's Coffee Downtown", "JOE'S COFFEE", "Joe's", "Yelp Austin"} }

\* ordinary places and copies of the target
CrowdKinds ==
  { k \in PlaceKinds \cup NamesakeKinds : k.name \in {"Corner Cafe", "Joe's Coffee Downtown"} }

\* the lists of n places of the given kinds; place_id is the position in the list
ListsOf(kinds, n) ==
  { [i \in 1..n |-> [name |-> k[i].name, placeId |-> i, website |-> k[i].website,
                     rating |-> k[i].rating, reviewCount |-> k[i].reviewCount]] :
      k \in [1..n -> kinds] }

\* data.results of the text search
SearchResults ==
  UNION { ListsOf(PlaceKinds \cup NamesakeKinds, n) : n \in 0..MaxResults }
    \cup UNION { ListsOf(CrowdKinds, n) : n \in (MaxResults + 1)..MaxCrowd }

\* the row, the locals of the run and the answered create call when the run of an
\* analysis created with a name and a location only reaches discoverCompetitors, the
\* place lookup of the presence analyzer having found nothing
NamedInput(name) ==
  [businessName |-> name, businessUrl |-> "", businessLocation |-> "Austin, TX", industry |-> ""]

CollectingRow(name) ==
  [CreateRow(NamedInput(name)) EXCEPT !.status = "collecting"]

AnsweredCreate(input) ==
  [IdleCall EXCEPT !.op = "create", !.pc = "done", !.userId = TheUser, !.input = input,
                   !.launched = <<TheId>>, !.runCatch = TRUE,
                   !.response = [ok |-> TRUE, code |-> "OK", id |-> TheId, status |-> "pending"]]

InitDiscover ==
  /\ \E name \in TargetNames :
       /\ analyses = {[CollectingRow(name) EXCEPT !.hasGoogleBusiness = 0,
                                                  !.socialProfiles = "{}"]}
       /\ run = [IdleRun EXCEPT !.pc = "discover", !.analysis = {CollectingRow(name)}]
       /\ rpc = AnsweredCreate(NamedInput(name))
  /\ search = IdleSearch
  /\ limiter = IdleLimiter
  /\ retry = IdleRetry
  /\ breaker = IdleBreaker
  /\ competitors = <<>>
  /\ statusWrites = <<"collecting">>
  /\ probe = IdleProbe

\* discoverCompetitors hands its list to the run; the map() call starts one task per
\* element of slice(0, 5)
Discovered(list) ==
  /\ search' = [search EXCEPT !.businessName = TheAnalysis.businessName,
                              !.pc = "done", !.returned = list]
  /\ run' = [run EXCEPT !.discoveredCompetitors = list,
                        !.tasks = [i \in 1..Len(Slice(list, MaxCompetitors)) |-> PendingTask],
                        !.pc = "fanout"]

\* geocodeLocation: coordinates, or null (a status other than OK, a thrown request) and
\* discoverCompetitors returns []
GeocodeLocation ==
  /\ run.pc = "discover"
  /\ search.pc = "idle"
  /\ \/ /\ search' = [search EXCEPT !.businessName = TheAnalysis.businessName,
                                      !.pc = "textsearch"]
        /\ UNCHANGED run
     \/ Discovered(<<>>)
  /\ UNCHANGED <<analyses, competitors, statusWrites, rpc, probe>>
  /\ UNCHANGED offApp

\* the text search request of searchNearbyPlaces: results, or [] when the status is not
\* OK or the request throws
TextSearch ==
  /\ search.pc = "textsearch"
  /\ \/ /\ \E results \in SearchResults :
             search' = [search EXCEPT !.results = results, !.next = 1, !.pc = "scan"]
        /\ UNCHANGED run
     \/ Discovered(<<>>)
  /\ UNCHANGED <<analyses, competitors, statusWrites, rpc, probe>>
  /\ UNCHANGED offApp

\* what one turn of the loop pushes: the place with the website of its details, which
\* are null when the details request fails
Candidate(place, details) ==
  [place EXCEPT !.website = IF details = "ok" THEN place.website ELSE NullStr]

\* one turn of the loop without the break
ScanPlace_nobreak ==
  /\ search.pc = "scan"
  /\ search.next <= Len(search.results)
  /\ LET place == search.results[search.next] IN
       IF isSelfMatch(place.name, search.businessName) \/ isLargeDirectory(place.name)
         THEN search' = [search EXCEPT !.next = @ + 1]
         ELSE \E details \in FetchOutcomes :
                search' = [search EXCEPT
                             !.competitors = Append(@, Candidate(place, details)),
                             !.next = @ + 1]
  /\ UNCHANGED <<analyses, competitors, run, statusWrites, rpc, probe>>
  /\ UNCHANGED offApp

\* one turn of the loop over data.results: skip the target itself and the directories,
\* else await getPlaceDetails and push; leave the loop at five
ScanPlace ==
  /\ search.pc = "scan"
  /\ search.next <= Len(search.results)
  /\ LET place == search.results[search.next] IN
       IF isSelfMatch(place.name, search.businessName) \/ isLargeDirectory(place.name)
         THEN search' = [search EXCEPT !.next = @ + 1]
         ELSE \E details \in FetchOutcomes :
                LET pushed == Append(search.competitors, Candidate(place, details)) IN
                  search' = [search EXCEPT
                               !.competitors = pushed,
                               !.next = @ + 1,
                               !.pc = IF Len(pushed) >= SearchLimit THEN "return" ELSE "scan"]
  /\ UNCHANGED <<analyses, competitors, run, statusWrites, rpc, probe>>
  /\ UNCHANGED offApp

\* return competitors, after the last result or after the break
ReturnCompetitors ==
  /\ \/ search.pc = "return"
     \/ search.pc = "scan" /\ search.next > Len(search.results)
  /\ Discovered(search.competitors)
  /\ UNCHANGED <<analyses, competitors, statusWrites, rpc, probe>>
  /\ UNCHANGED offApp

NextDiscover ==
  \/ GeocodeLocation
  \/ TextSearch
  \/ ScanPlace
  \/ ReturnCompetitors
  \/ CompetitorTask
  \/ JoinCompetitors
  \/ SaveCompetitors

\* a run from its call of discoverCompetitors to the bulk insert of the competitors
SpecDiscover == InitDiscover /\ [][NextDiscover]_vars

----------------------------------------------------------------------------
(* Properties of competitor discovery *)

\* the results of the search that the two filters of the loop let through
Passing ==
  { i \in 1..Len(search.results) :
      /\ ~isSelfMatch(search.results[i].name, search.businessName)
      /\ ~isLargeDirectory(search.results[i].name) }

\* C14: discoverCompetitors returns at most 5 places, at most 5 tasks are started, and
\* the competitor rows stored for the analysis number between 0 and 5, however many
\* results of the search pass the filters
C14_AtMostFiveCompetitors ==
  /\ Len(search.competitors) <= 5
  /\ Len(search.returned) <= 5
  /\ Len(run.tasks) <= 5
  /\ Len(run.competitorDataList) <= 5
  /\ Len(getCompetitorsByAnalysisId(competitors, TheId)) \in 0..5

\* seven results passed the filters and five rows were stored
C14_Witness ==
  /\ Cardinality(Passing) = 7
  /\ run.pc = "setAnalyzing"
  /\ Len(getCompetitorsByAnalysisId(competitors, TheId)) = 5

\* inner occurs in outer when letters are compared without regard to case
WithinIgnoringCase(inner, outer) ==
  \E before \in 0..Len(outer) :
    /\ before + Len(inner) <= Len(outer)
    /\ \A k \in 1..Len(inner) : LowerChar(outer[before + k]) = LowerChar(inner[k])

\* C15: no place that discoverCompetitors returns, and none it has pushed so far, has a
\* name that contains the target business name or is contained in it, letters compared
\* without regard to case
C15_TargetNeverReturned ==
  \A c \in {search.competitors[i] : i \in 1..Len(search.competitors)}
          \cup {search.returned[i] : i \in 1..Len(search.returned)}
          \cup {run.discoveredCompetitors[i] : i \in 1..Len(run.discoveredCompetitors)} :
    /\ ~WithinIgnoringCase(Chars(search.businessName), Chars(c.name))
    /\ ~WithinIgnoringCase(Chars(c.name), Chars(search.businessName))

\* for the target "Joe's Coffee" the search listed "Joe's Coffee Downtown" and another
\* place, and only the other place was returned
C15_Witness ==
  /\ search.pc = "done"
  /\ search.businessName = "Joe's Coffee"
  /\ \E i \in 1..Len(search.results) : search.results[i].name = "Joe's Coffee Downtown"
  /\ Len(search.returned) = 1
  /\ search.returned[1].name = "Rival Roasters"

----------------------------------------------------------------------------
(* calculateCompetitiveScore applied alone *)

\* competitor data the run can hand to calculateCompetitiveScore: SEO score of a scraped
\* site (0 when the scrape failed), rating in tenths, review count, URL, each or none
ScoreArguments ==
  [name : {"Rival Roasters", "Corner Cafe"},
   seoScore : {NullInt, 0, 1, 49, 50, 51, 100},
   googleRating : {NullInt, 10, 30, 43, 50},
   googleReviewCount : {NullInt, 1, 5, 149, 150, 151, 1000},
   url : {NullStr, "https://rival.example"}]

InitScore ==
  /\ analyses = {}
  /\ competitors = <<>>
  /\ run = IdleRun
  /\ statusWrites = <<>>
  /\ rpc = IdleCall
  /\ search = IdleSearch
  /\ limiter = IdleLimiter
  /\ retry = IdleRetry
  /\ breaker = IdleBreaker
  /\ \E competitor \in ScoreArguments :
       probe = [pc |-> "called", competitor |-> competitor, score |-> NullInt]

\* competitorData.competitiveScore = calculateCompetitiveScore(competitorData, targetSeoData)
ApplyScore ==
  /\ probe.pc = "called"
  /\ probe' = [probe EXCEPT !.score = calculateCompetitiveScore(probe.competitor),
                            !.pc = "returned"]
  /\ UNCHANGED <<analyses, competitors, run, statusWrites, rpc, search>>
  /\ UNCHANGED offApp

NextScore == ApplyScore

SpecScore == InitScore /\ [][NextScore]_vars

----------------------------------------------------------------------------
(* Properties of calculateCompetitiveScore *)

\* ten times 50 + min(seo/2, 25) + (rating - 3)*10 + min(reviews/10, 15) + (5 if website),
\* an absent input adding nothing
TenfoldSum(c) ==
  500
  + (IF c.seoScore = NullInt THEN 0
     ELSE IF 5 * c.seoScore <= 250 THEN 5 * c.seoScore ELSE 250)
  + (IF c.googleRating = NullInt THEN 0 ELSE 10 * c.googleRating - 300)
  + (IF c.googleReviewCount = NullInt THEN 0
     ELSE IF c.googleReviewCount <= 150 THEN c.googleReviewCount ELSE 150)
  + (IF c.url = NullStr THEN 0 ELSE 50)

\* the integer nearest to tenfold/10, a half going up
Rounded(tenfold) == CHOOSE n \in -100..300 : 10 * n - 5 <= tenfold /\ tenfold < 10 * n + 5

Clamped(n) == IF n < 0 THEN 0 ELSE IF n > 100 THEN 100 ELSE n

AllAbsent(c) ==
  /\ c.seoScore = NullInt
  /\ c.googleRating = NullInt
  /\ c.googleReviewCount = NullInt
  /\ c.url = NullStr

\* C16: the score calculateCompetitiveScore returns is the clamped, rounded sum of the
\* claim computed from the SEO score, the rating, the review count and the presence of
\* a website alone; it is an integer from 0 to 100, and 50 when all four are absent
C16_ScoreFormula ==
  probe.pc = "returned" =>
    /\ probe.score = Clamped(Rounded(TenfoldSum(probe.competitor)))
    /\ probe.score \in 0..100
    /\ AllAbsent(probe.competitor) => probe.score = 50

\* the score of a competitor with nothing known is 50; the sum of the claim is a half
\* for some arguments and above 100 for others
C16_Witness ==
  /\ probe.pc = "returned"
  /\ AllAbsent(probe.competitor)
  /\ probe.score = 50
  /\ \E c \in ScoreArguments : TenfoldSum(c) % 10 = 5
  /\ \E c \in ScoreArguments : TenfoldSum(c) > 1000

----------------------------------------------------------------------------
(* Properties of the industry guard *)

\* from the call of discoverCompetitors until the insights are saved
FromDiscoveryToInsights ==
  run.pc \in {"discover", "fanout", "saveCompetitors", "setAnalyzing", "reload",
              "aiInsights", "saveInsights"}

\* C17: from the call of discoverCompetitors until the insights are saved, a run whose
\* request named no industry and whose presence analyzer reported one of the generic
\* labels has a blank stored industry and hands no industry to discoverCompetitors
\* (detectedIndustry is blank); a run whose request named an industry hands that
\* industry to discoverCompetitors and has it stored
C17_GenericTypeNeverBecomesIndustry ==
  FromDiscoveryToInsights =>
    /\ (rpc.input.industry = "" /\ run.presenceData.primaryType \in genericTypes) =>
         /\ run.detectedIndustry = NullStr
         /\ \A a \in analyses : a.industry = NullStr
    /\ rpc.input.industry # "" =>
         /\ run.detectedIndustry = rpc.input.industry
         /\ \A a \in analyses : a.industry = rpc.input.industry

\* no industry was named, the place is a point of interest, and the tasks of the
\* fan-out are running with the stored industry blank
C17_Witness ==
  /\ run.pc = "fanout"
  /\ rpc.input.industry = ""
  /\ run.presenceData.primaryType = "point of interest"
  /\ run.detectedIndustry = NullStr
  /\ \E a \in analyses : a.industry = NullStr

----------------------------------------------------------------------------
(* The life of a record: its creation and run, and content regeneration once completed *)

NextRecord ==
  \/ Next
  \/ NextRegen

InitRecord == Init \/ InitCompleted

SpecRecord == InitRecord /\ [][NextRecord]_vars

----------------------------------------------------------------------------
(* Properties of the input fields *)

\* the industry of row a is the one the request of its creation named
Supplied(a) ==
  /\ a.industry # NullStr
  /\ rpc.op = "create" => a.industry = rpc.input.industry

\* the row a of this state is in the next state with its business name, URL and location
\* as they are, and with its industry as it is when the request named it
KeepsInputs(a) ==
  \E b \in analyses' :
    /\ b.id = a.id
    /\ b.businessName = a.businessName
    /\ b.businessUrl = a.businessUrl
    /\ b.businessLocation = a.businessLocation
    /\ Supplied(a) => b.industry = a.industry

\* C18 as stated: no step of the run and no step of a content regeneration changes the
\* business name, URL or location of a row, or an industry the request named
C18_InputFieldsImmutable ==
  [][ \A a \in analyses : KeepsInputs(a) ]_vars

\* C18: no step of the run and no step of a content regeneration changes the business
\* name, URL or location of a row; an industry the request named changes in one step
\* only, the save of the AI insights, and only to the industry the AI result carries
C18_InputsKeptButIndustryAtInsights ==
  [][ \A a \in analyses :
        \E b \in analyses' :
          /\ b.id = a.id
          /\ b.businessName = a.businessName
          /\ b.businessUrl = a.businessUrl
          /\ b.businessLocation = a.businessLocation
          /\ Supplied(a) =>
               \/ b.industry = a.industry
               \/ /\ run.pc = "saveInsights"
                  /\ StrTruthy(run.aiInsights.detectedIndustry)
                  /\ b.industry = run.aiInsights.detectedIndustry
    ]_vars

\* the request named the industry "coffee shop", the run completed, and the row holds
\* the industry of the AI result under the name, URL and location of the request
C18_Witness ==
  /\ run.pc = "done"
  /\ rpc.op = "create"
  /\ rpc.input.industry = "coffee shop"
  /\ \E a \in analyses :
       /\ a.status = "completed"
       /\ a.industry = "specialty coffee"
       /\ a.businessName = rpc.input.businessName
       /\ a.businessUrl = OrNullStr(rpc.input.businessUrl)
       /\ a.businessLocation = rpc.input.businessLocation

----------------------------------------------------------------------------
(* analysis.delete: routers.ts, db.deleteAnalysis *)

\* the locals of a run whose tasks have all finished for the places d, before the bulk
\* insert of their rows
RunBeforeInsert(name, d) ==
  [IdleRun EXCEPT
     !.pc = "saveCompetitors",
     !.analysis = {CollectingRow(name)},
     !.discoveredCompetitors = d,
     !.tasks = [i \in 1..Len(d) |->
                  [state |-> "fulfilled", seoFetch |-> "ok", enrichFetch |-> "ok",
                   data |-> CompetitorRows(d)[i]]],
     !.competitorDataList = CompetitorRows(d)]

\* a run that is about to insert the rows of its competitors
InitInserting ==
  /\ \E d \in DiscoveryResults :
       run = RunBeforeInsert("Joe's Coffee", d)
  /\ analyses = {[CollectingRow("Joe's Coffee") EXCEPT !.hasGoogleBusiness = 0,
                                                        !.socialProfiles = "{}"]}
  /\ competitors = <<>>
  /\ statusWrites = <<"collecting">>
  /\ rpc = AnsweredCreate(NamedInput("Joe's Coffee"))
  /\ search = IdleSearch
  /\ limiter = IdleLimiter
  /\ retry = IdleRetry
  /\ breaker = IdleBreaker
  /\ probe = IdleProbe

\* DELETE FROM competitors WHERE analysisId = id
deleteCompetitors(rows, id) == SelectSeq(rows, LAMBDA c : c.analysisId # id)

\* DELETE FROM analyses WHERE id = id AND userId = userId
deleteAnalysisRow(rows, id, userId) == { r \in rows : ~(r.id = id /\ r.userId = userId) }

\* a delete request arrives when no call is in hand or the last one has been answered;
\* ctx.user.id of a caller who is not signed in is a TypeError; db.deleteAnalysis
\* returns false when there is no database connection
Delete ==
  /\ rpc.pc \in {"idle", "done"}
  /\ rpc.op # "delete"
  /\ \E user \in Callers, id \in Ids :
       LET req == [IdleCall EXCEPT !.op = "delete", !.userId = user, !.id = id] IN
         \/ rpc' = IF user = NoUser THEN Answer(req, "INTERNAL_SERVER_ERROR")
                   ELSE [req EXCEPT !.pc = "deleteCompetitors"]
         \/ rpc' = IF user = NoUser THEN Answer(req, "INTERNAL_SERVER_ERROR")
                   ELSE Answer(req, "NOT_FOUND")
  /\ UNCHANGED <<analyses, competitors, run, statusWrites, search, probe>>
  /\ UNCHANGED offApp

\* await db.delete(competitors).where(eq(competitors.analysisId, id))
DeleteCompetitors ==
  /\ rpc.pc = "deleteCompetitors"
  /\ \/ /\ competitors' = deleteCompetitors(competitors, rpc.id)
        /\ rpc' = [rpc EXCEPT !.pc = "deleteAnalysis"]
     \/ /\ rpc' = Answer(rpc, "INTERNAL_SERVER_ERROR")
        /\ UNCHANGED competitors
  /\ UNCHANGED <<analyses, run, statusWrites, search, probe>>
  /\ UNCHANGED offApp

\* await db.delete(analyses).where(and(eq(analyses.id, id), eq(analyses.userId, userId))),
\* then affectedRows > 0, and NOT_FOUND in the router when that is false
DeleteAnalysisRow ==
  /\ rpc.pc = "deleteAnalysis"
  /\ \/ LET left == deleteAnalysisRow(analyses, rpc.id, rpc.userId) IN
          /\ analyses' = left
          /\ rpc' = IF left # analyses THEN Return(rpc) ELSE Answer(rpc, "NOT_FOUND")
     \/ /\ rpc' = Answer(rpc, "INTERNAL_SERVER_ERROR")
        /\ UNCHANGED analyses
  /\ UNCHANGED <<competitors, run, statusWrites, search, probe>>
  /\ UNCHANGED offApp

NextDelete ==
  \/ Delete
  \/ DeleteCompetitors
  \/ DeleteAnalysisRow
  \/ SaveCompetitors

InitDelete == InitCompleted \/ InitInserting

\* one delete request on a store that holds a completed analysis, or an analysis whose
\* run is about to insert its competitors
SpecDelete == InitDelete /\ [][NextDelete]_vars

----------------------------------------------------------------------------
(* Properties of analysis.delete *)

\* the delete request of the owner has been answered with success
DeletedByOwner ==
  /\ rpc.op = "delete"
  /\ rpc.pc = "done"
  /\ rpc.response.ok
  /\ rpc.userId = TheUser

\* C19 as stated: once a delete by the owner has succeeded, no competitor row with the
\* id of the deleted analysis is in the store
C19_NoCompetitorAfterDelete ==
  DeletedByOwner => getCompetitorsByAnalysisId(competitors, rpc.id) = <<>>

----------------------------------------------------------------------------
(* Properties of the end of a failed run *)

\* the catch block of the run is about to act
InCatch == run.pc = "catch" /\ run.error # NoError

\* the answer analysis.create gave is the one it still holds
Answered ==
  /\ rpc.op = "create"
  /\ rpc.pc = "done"
  /\ rpc.response = PendingResponse

\* C20 as stated: the catch block records failed, the invocation of
\* runCompetitiveAnalysis returns without raising, and the response of analysis.create
\* stays as it was
C20_FailureNotRethrown ==
  [][InCatch => /\ run'.pc = "done"
                /\ \A a \in analyses' : a.status = "failed"
                /\ rpc' = rpc]_vars

\* C20, amended: the catch block writes failed or, when that write throws, leaves
\* the record as it was; in both cases the invocation of runCompetitiveAnalysis ends
\* rejected, the rejection goes to the handler analysis.create attached to it, and the
\* response analysis.create gave stays as it was
C20_FailureRethrownIntoCatch ==
  [][InCatch => /\ run'.pc = "rejected"
                /\ run'.error = run.error
                /\ \/ analyses' = analyses
                   \/ \A a \in analyses' : a.status = "failed"
                /\ rpc.runCatch
                /\ rpc.launched = <<run.analysisId>>
                /\ Answered
                /\ rpc' = rpc]_vars

C20_Witness ==
  /\ run.pc = "rejected"
  /\ run.error # NoError
  /\ rpc.runCatch
  /\ Answered
  /\ \E a \in analyses : a.id = rpc.response.id /\ a.status = "failed"

----------------------------------------------------------------------------
(* analysis.get: routers.ts *)

\* who owns the stored analysis: a signed-in user, or nobody (ctx.user?.id || 0 at create)
Owners == {TheUser, NoUser}

\* the store holds one completed analysis of some owner and its competitors
InitGet ==
  /\ \E input \in CreateInputs, llm \in {"ok", "throw"}, owner \in Owners :
       analyses = {[CompletedRow(input, llm) EXCEPT !.userId = owner]}
  /\ \E d \in DiscoveryResults : competitors = CompetitorRows(d)
  /\ run = [IdleRun EXCEPT !.pc = "done"]
  /\ statusWrites = <<"collecting", "analyzing", "completed">>
  /\ rpc = IdleCall
  /\ search = IdleSearch
  /\ limiter = IdleLimiter
  /\ retry = IdleRetry
  /\ breaker = IdleBreaker
  /\ probe = IdleProbe

\* a query that skips the check of the owner
Get_open ==
  /\ rpc.pc = "idle"
  /\ \E user \in Callers, id \in Ids :
       LET req == [rpc EXCEPT !.op = "get", !.userId = user, !.id = id]
           found == getAnalysisById(analyses, id)
       IN \/ rpc' = IF found = {} THEN Answer(req, "NOT_FOUND")
                     ELSE [req EXCEPT !.analysis = found, !.pc = "getCompetitors"]
          \/ rpc' = Answer(req, "INTERNAL_SERVER_ERROR")
  /\ UNCHANGED <<analyses, competitors, run, statusWrites, search, probe>>
  /\ UNCHANGED offApp

\* the request arrives and the analysis is read: NOT_FOUND when there is none, FORBIDDEN
\* when its userId is not ctx.user?.id || 0, else on to the read of the competitors
Get ==
  /\ rpc.pc = "idle"
  /\ \E user \in Callers, id \in Ids :
       LET req == [rpc EXCEPT !.op = "get", !.userId = user, !.id = id]
           found == getAnalysisById(analyses, id)
       IN \/ rpc' = IF found = {} THEN Answer(req, "NOT_FOUND")
                     ELSE IF \E a \in found : a.userId # user THEN Answer(req, "FORBIDDEN")
                     ELSE [req EXCEPT !.analysis = found, !.pc = "getCompetitors"]
          \/ rpc' = Answer(req, "INTERNAL_SERVER_ERROR")
  /\ UNCHANGED <<analyses, competitors, run, statusWrites, search, probe>>
  /\ UNCHANGED offApp

\* competitorsList = await db.getCompetitorsByAnalysisId(input.id), then
\* return { ...analysis, competitors: competitorsList }
GetCompetitors ==
  /\ rpc.pc = "getCompetitors"
  /\ \/ LET list == OrderByScoreDesc(getCompetitorsByAnalysisId(competitors, rpc.id)) IN
          rpc' = [Return(rpc) EXCEPT
                    !.competitorsList = list,
                    !.returned = { [analysis |-> a, competitors |-> list] : a \in rpc.analysis }]
     \/ rpc' = Answer(rpc, "INTERNAL_SERVER_ERROR")
  /\ UNCHANGED <<analyses, competitors, run, statusWrites, search, probe>>
  /\ UNCHANGED offApp

NextGet ==
  \/ Get
  \/ GetCompetitors

\* one analysis.get request on a store that holds a completed analysis
SpecGet == InitGet /\ [][NextGet]_vars

----------------------------------------------------------------------------
(* Properties of analysis.get *)

\* analysis.get has answered
GetAnswered == rpc.op = "get" /\ rpc.pc = "done"

\* the stored rows with the id the caller asked for
Asked == { a \in analyses : a.id = rpc.id }

\* C21: analysis.get hands back record data only for a stored analysis whose userId is
\* the caller's user id, and then with the competitors of that analysis; for an id that
\* is not stored, and for an analysis of another user, it fails and hands back no data,
\* with NOT_FOUND and FORBIDDEN respectively unless the read of the store itself threw
C21_GetOnlyForOwner ==
  GetAnswered =>
    /\ rpc.response.ok <=> rpc.returned # {}
    /\ \A r \in rpc.returned :
         /\ r.analysis \in Asked
         /\ r.analysis.userId = rpc.userId
         /\ \A i \in 1..Len(r.competitors) : r.competitors[i].analysisId = rpc.id
         /\ Len(r.competitors) = Cardinality({ i \in 1..Len(competitors) :
                                                 competitors[i].analysisId = rpc.id })
    /\ Asked = {} =>
         rpc.response.code \in {"NOT_FOUND", "INTERNAL_SERVER_ERROR"}
    /\ (\E a \in Asked : a.userId # rpc.userId) =>
         rpc.response.code \in {"FORBIDDEN", "INTERNAL_SERVER_ERROR"}

\* the owner was handed the analysis with all its competitors
C21_Witness ==
  /\ GetAnswered
  /\ rpc.userId = TheUser
  /\ \E r \in rpc.returned : r.analysis.userId = TheUser /\ Len(r.competitors) = MaxPlaces

----------------------------------------------------------------------------
(* Properties of the order of the stages *)

\* the step writes the status analyzing to the record
WritesAnalyzing ==
  /\ Len(statusWrites') = Len(statusWrites) + 1
  /\ statusWrites'[Len(statusWrites')] = "analyzing"

\* every task of the fan-out has finished, and the store holds one row per discovered
\* competitor of the run, in the order of discovery
FanOutPersisted ==
  /\ \A i \in 1..Len(run.tasks) : run.tasks[i].state # "pending"
  /\ Len(run.tasks) = Len(run.discoveredCompetitors)
  /\ Len(competitors) = Len(run.discoveredCompetitors)
  /\ \A i \in 1..Len(competitors) :
       /\ competitors[i].analysisId = run.analysisId
       /\ competitors[i].name = run.discoveredCompetitors[i].name

\* the record holds the insights the run generated
InsightsPersisted ==
  \E a \in analyses :
    /\ a.id = run.analysisId
    /\ a.overallAnalysis # NullStr
    /\ a.overallAnalysis = run.aiInsights.overallAnalysis

\* positions of the run in which content is generated or saved
ContentStages == {"blog", "saveBlog", "adCopy", "saveAdCopy"}

\* C22: competitor rows reach the store in one write of all of them, made when every
\* task has finished; the status analyzing is written only after that; the generation
\* of the AI insights starts only after analyzing has been written; and the generation
\* of content starts only after the insights have been saved to the record
C22_StagesInOrder ==
  [][/\ competitors' # competitors =>
          /\ competitors = <<>>
          /\ \A i \in 1..Len(run.tasks) : run.tasks[i].state # "pending"
          /\ Len(competitors') = Len(run.tasks)
     /\ WritesAnalyzing => FanOutPersisted
     /\ (run'.pc = "aiInsights" /\ run.pc # "aiInsights") =>
          /\ FanOutPersisted
          /\ \E k \in 1..Len(statusWrites) : statusWrites[k] = "analyzing"
     /\ (run'.pc \in ContentStages /\ run.pc \notin ContentStages) =>
          /\ InsightsPersisted
          /\ \E k \in 1..Len(statusWrites) : statusWrites[k] = "analyzing"]_vars

\* content generation has started in a run that persisted all its competitors
C22_Witness ==
  /\ run.pc = "blog"
  /\ Len(run.tasks) = MaxPlaces
  /\ FanOutPersisted
  /\ InsightsPersisted

----------------------------------------------------------------------------
(* Properties of the industry at the AI-insights stage *)

\* C23 as stated: the save of the AI insights changes the stored industry only when the
\* AI result carries a detected industry; when it carries none, the stored industry
\* after the save is the effective industry the run established before discovery
C23_IndustryKeptWithoutAIDetection ==
  [][run.pc = "saveInsights" =>
       \A a \in analyses, b \in analyses' :
         a.id = b.id =>
           /\ b.industry # a.industry => StrTruthy(run.aiInsights.detectedIndustry)
           /\ ~StrTruthy(run.aiInsights.detectedIndustry) => b.industry = run.detectedIndustry
    ]_vars

----------------------------------------------------------------------------
(* The rate limiters: rateLimiter.ts, app.ts *)

\* the clock advances by minutes, up to MaxMinutes of them
MaxMinutes == 3
\* API responses awaited at one time
MaxInFlight == 1
\* the count of the entry goes no further
MaxCount == 12

MinuteMs == 60000

\* createRateLimiter({windowMs: 15 * 60 * 1000, max: 10}), used on /api/oauth
authRateLimiter == [route |-> "auth", windowMs |-> 15 * MinuteMs, max |-> 10,
                    skipSuccessfulRequests |-> FALSE]

\* createRateLimiter({windowMs: 60 * 1000, max: 100, skipSuccessfulRequests: true}),
\* used on /api/trpc
apiRateLimiter == [route |-> "api", windowMs |-> MinuteMs, max |-> 100,
                   skipSuccessfulRequests |-> TRUE]

\* store[key] after the middleware has made or renewed it and counted the request.
\* Every limiter reads and writes the one module-level store, and the default
\* keyGenerator gives every limiter the same key for one client (its IP address).
Counted(options) ==
  LET fresh == [count |-> 0, resetTime |-> limiter.now + options.windowMs]
      entry == IF limiter.store = {} \/ (\E e \in limiter.store : e.resetTime < limiter.now)
                 THEN fresh
                 ELSE CHOOSE e \in limiter.store : TRUE
  IN [entry EXCEPT !.count = @ + 1]

\* the middleware returned by createRateLimiter, for one request of the client: 429
\* when the count exceeds max, else next(), with res.send wrapped when
\* skipSuccessfulRequests is set
Middleware(options) ==
  LET entry == Counted(options)
      refused == entry.count > options.max
  IN /\ entry.count <= MaxCount
     /\ options.skipSuccessfulRequests => limiter.inFlight < MaxInFlight
     /\ limiter' = [limiter EXCEPT
                      !.store = {entry},
                      !.answer = [route |-> options.route,
                                  status |-> IF refused THEN "429" ELSE "next"],
                      !.admitted = IF ~refused /\ options.route = "auth" THEN @ + 1 ELSE @,
                      !.inFlight = IF ~refused /\ options.skipSuccessfulRequests
                                     THEN @ + 1 ELSE @]

\* a request to /api/oauth
AuthRequest ==
  /\ Middleware(authRateLimiter)
  /\ UNCHANGED <<analyses, competitors, run, statusWrites, rpc, search, probe>>
  /\ UNCHANGED <<retry, breaker>>

\* a request to /api/trpc
ApiRequest ==
  /\ Middleware(apiRateLimiter)
  /\ UNCHANGED <<analyses, competitors, run, statusWrites, rpc, search, probe>>
  /\ UNCHANGED <<retry, breaker>>

\* the response of an API request goes out: through the wrapped res.send with a status
\* below 400 (the count of the entry now in the store goes down by one, not below 0),
\* through it with a status of 400 or more, or without a call of res.send
ApiResponse ==
  /\ limiter.inFlight > 0
  /\ \E how \in {"sendOk", "sendError", "end"} :
       limiter' = [limiter EXCEPT
                     !.inFlight = @ - 1,
                     !.store = IF how = "sendOk"
                                 THEN { [e EXCEPT !.count = IF @ - 1 > 0 THEN @ - 1 ELSE 0] :
                                        e \in limiter.store }
                                 ELSE @]
  /\ UNCHANGED <<analyses, competitors, run, statusWrites, rpc, search, probe>>
  /\ UNCHANGED <<retry, breaker>>

\* a minute passes
Minute ==
  /\ limiter.now < MaxMinutes * MinuteMs
  /\ limiter' = [limiter EXCEPT !.now = @ + MinuteMs]
  /\ UNCHANGED <<analyses, competitors, run, statusWrites, rpc, search, probe>>
  /\ UNCHANGED <<retry, breaker>>

InitLimiter ==
  /\ analyses = {}
  /\ competitors = <<>>
  /\ run = IdleRun
  /\ statusWrites = <<>>
  /\ rpc = IdleCall
  /\ search = IdleSearch
  /\ probe = IdleProbe
  /\ limiter = IdleLimiter
  /\ retry = IdleRetry
  /\ breaker = IdleBreaker

NextLimiter ==
  \/ AuthRequest
  \/ ApiRequest
  \/ ApiResponse
  \/ Minute

\* the requests of one client to /api/oauth and /api/trpc, from server start
SpecLimiter == InitLimiter /\ [][NextLimiter]_vars

----------------------------------------------------------------------------
(* Properties of the auth rate limiter *)

\* C24 as stated: within one 15-minute window (here the first 15 minutes after the
\* server started) no more than 10 auth requests of the client are handed to the next
\* handler, whatever requests the client sends to the API
C24_AuthAdmitsAtMostTen ==
  limiter.now < 15 * 60 * 1000 => limiter.admitted <= 10

----------------------------------------------------------------------------
(* retryWithBackoff: apiRetry.ts *)

\* the errors the wrapped function throws: a connection reset, a 503 and a 404 of
\* axios, the timeout of axios, its error without a response, and a refused key
Faults ==
  {[code |-> "ECONNRESET", status |-> NullInt, message |-> "socket hang up"],
   [code |-> NullStr, status |-> 503, message |-> "Request failed with status code 503"],
   [code |-> NullStr, status |-> 404, message |-> "Request failed with status code 404"],
   [code |-> NullStr, status |-> NullInt, message |-> "timeout of 10000ms exceeded"],
   [code |-> NullStr, status |-> NullInt, message |-> "Network Error"],
   [code |-> NullStr, status |-> NullInt, message |-> "Invalid API key"]}

DEFAULT_RETRYABLE_ERRORS ==
  {"ECONNRESET", "ENOTFOUND", "ESOCKETTIMEDOUT", "ETIMEDOUT", "ECONNREFUSED", "EHOSTUNREACH",
   "EPIPE", "EAI_AGAIN"}

DEFAULT_RETRYABLE_STATUS_CODES == {408, 429, 500, 502, 503, 504, 522, 524}

\* an error test that lets every error be retried
isRetryableError_any(error) == TRUE

\* isRetryableError(error, undefined): by code, by HTTP status, by the words network
\* and timeout in the message
isRetryableError(error) ==
  \/ StrTruthy(error.code) /\ error.code \in DEFAULT_RETRYABLE_ERRORS
  \/ error.status # NullInt /\ error.status # 0 /\ error.status \in DEFAULT_RETRYABLE_STATUS_CODES
  \/ /\ error.message # NullStr
     /\ \/ includes(Chars(error.message), Chars("network"))
        \/ includes(Chars(error.message), Chars("timeout"))

\* the defaults of RetryOptions
maxRetries == 3
initialDelay == 1000
maxDelay == 30000
backoffMultiplier == 2

\* calculateDelay(attempt, {})
calculateDelay(attempt) == Min(initialDelay * backoffMultiplier ^ (attempt - 1), maxDelay)

\* retryWithBackoff(fn) is called: the loop starts with attempt = 1
RetryWithBackoff ==
  /\ retry.pc = "idle"
  /\ retry' = [retry EXCEPT !.pc = "call", !.attempt = 1]
  /\ UNCHANGED <<analyses, competitors, run, statusWrites, rpc, search, probe>>
  /\ UNCHANGED <<limiter, breaker>>

\* the outcome of the retryWithBackoff call
Returned(value) == [kind |-> "returned", value |-> value, error |-> NoFault]
Threw(error) == [kind |-> "threw", value |-> NullInt, error |-> error]

\* one pass of the loop body: return await fn(), and the catch block.  The value fn
\* resolves with is the number of the invocation.
Invoke ==
  /\ retry.pc = "call"
  /\ retry.attempt <= maxRetries + 1
  /\ \/ retry' = [retry EXCEPT
                    !.invoked = Append(@, Returned(retry.attempt)),
                    !.outcome = Returned(retry.attempt),
                    !.pc = "done"]
     \/ \E error \in Faults :
          LET thrown == [retry EXCEPT !.invoked = Append(@, Threw(error)),
                                      !.lastError = error]
          IN retry' =
               IF retry.attempt > maxRetries
                 THEN [thrown EXCEPT !.outcome = Threw(error), !.pc = "done"]
               ELSE IF ~isRetryableError(error)
                 THEN [thrown EXCEPT !.outcome = Threw(error), !.pc = "done"]
               ELSE [thrown EXCEPT !.slept = Append(@, calculateDelay(retry.attempt)),
                                   !.pc = "sleep"]
  /\ UNCHANGED <<analyses, competitors, run, statusWrites, rpc, search, probe>>
  /\ UNCHANGED <<limiter, breaker>>

\* await sleep(delay) ends, and attempt++
Sleep ==
  /\ retry.pc = "sleep"
  /\ retry' = [retry EXCEPT !.attempt = @ + 1, !.pc = "call"]
  /\ UNCHANGED <<analyses, competitors, run, statusWrites, rpc, search, probe>>
  /\ UNCHANGED <<limiter, breaker>>

InitRetry ==
  /\ analyses = {}
  /\ competitors = <<>>
  /\ run = IdleRun
  /\ statusWrites = <<>>
  /\ rpc = IdleCall
  /\ search = IdleSearch
  /\ probe = IdleProbe
  /\ limiter = IdleLimiter
  /\ retry = IdleRetry
  /\ breaker = IdleBreaker

NextRetry ==
  \/ RetryWithBackoff
  \/ Invoke
  \/ Sleep

\* one call of retryWithBackoff with default options
SpecRetry == InitRetry /\ [][NextRetry]_vars

----------------------------------------------------------------------------
(* Properties of retryWithBackoff *)

\* the thrown errors of Faults that are transient: the connection reset, the 503, the
\* timeout
Transient(error) ==
  \/ error.code = "ECONNRESET"
  \/ error.status = 503
  \/ error.message = "timeout of 10000ms exceeded"

----------------------------------------------------------------------------
(* CircuitBreaker: apiRetry.ts *)

\* the clock advances by steps of TickMs, MaxTicks of them
MaxTicks == 7
\* calls of execute whose wrapped function has not settled yet
MaxCalls == 2
\* the failure count goes no further
MaxFailures == 7

TickMs == 10000

\* new CircuitBreaker(threshold, timeout, resetTimeout): the breakers of the Maps and
\* Forge services (5, 30 s), of the LLM service (3, 60 s), and one with threshold 1
Breakers ==
  {[threshold |-> 5, resetTimeout |-> 30000],
   [threshold |-> 3, resetTimeout |-> 60000],
   [threshold |-> 1, resetTimeout |-> 30000]}

\* what the last step did; trial tells, for a call, whether it is one that took the
\* breaker from open to half-open
Event(what, trial) == [what |-> what, trial |-> trial]

InitBreaker ==
  /\ analyses = {}
  /\ competitors = <<>>
  /\ run = IdleRun
  /\ statusWrites = <<>>
  /\ rpc = IdleCall
  /\ search = IdleSearch
  /\ probe = IdleProbe
  /\ limiter = IdleLimiter
  /\ retry = IdleRetry
  /\ \E b \in Breakers :
       breaker = [IdleBreaker EXCEPT !.threshold = b.threshold,
                                     !.resetTimeout = b.resetTimeout,
                                     !.event = Event("none", FALSE)]

\* an execute that lets the call through whenever the breaker is open
Execute_eager ==
  /\ breaker.running + breaker.trials < MaxCalls
  /\ breaker' =
       IF breaker.state = "open"
         THEN [breaker EXCEPT !.state = "half-open", !.trials = @ + 1,
                              !.event = Event("invoked", TRUE)]
         ELSE [breaker EXCEPT !.running = @ + 1, !.event = Event("invoked", FALSE)]
  /\ UNCHANGED <<analyses, competitors, run, statusWrites, rpc, search, probe>>
  /\ UNCHANGED <<limiter, retry>>

\* execute(fn) up to its await: an open breaker goes half-open when resetTimeout has
\* passed since lastFailureTime and throws otherwise; then fn is invoked
Execute ==
  /\ \/ breaker.state = "open" /\ breaker.now - breaker.lastFailureTime < breaker.resetTimeout
     \/ breaker.running + breaker.trials < MaxCalls
  /\ breaker' =
       IF breaker.state = "open"
         THEN IF breaker.now - breaker.lastFailureTime >= breaker.resetTimeout
                THEN [breaker EXCEPT !.state = "half-open", !.trials = @ + 1,
                                     !.event = Event("invoked", TRUE)]
                ELSE [breaker EXCEPT !.event = Event("rejected", FALSE)]
         ELSE [breaker EXCEPT !.running = @ + 1, !.event = Event("invoked", FALSE)]
  /\ UNCHANGED <<analyses, competitors, run, statusWrites, rpc, search, probe>>
  /\ UNCHANGED <<limiter, retry>>

\* the breaker without one of its calls in flight
Settled(trial) ==
  IF trial THEN [breaker EXCEPT !.trials = @ - 1] ELSE [breaker EXCEPT !.running = @ - 1]

\* a success that closes the breaker and keeps the failure count
Succeed_keepCount ==
  /\ \E trial \in BOOLEAN :
       /\ IF trial THEN breaker.trials > 0 ELSE breaker.running > 0
       /\ breaker' =
            IF breaker.state = "half-open"
              THEN [Settled(trial) EXCEPT !.state = "closed",
                                          !.event = Event("succeeded", trial)]
              ELSE [Settled(trial) EXCEPT !.event = Event("succeeded", trial)]
  /\ UNCHANGED <<analyses, competitors, run, statusWrites, rpc, search, probe>>
  /\ UNCHANGED <<limiter, retry>>

\* fn resolves for one call in flight: a half-open breaker closes with failures = 0
Succeed ==
  /\ \E trial \in BOOLEAN :
       /\ IF trial THEN breaker.trials > 0 ELSE breaker.running > 0
       /\ breaker' =
            IF breaker.state = "half-open"
              THEN [Settled(trial) EXCEPT !.state = "closed", !.failures = 0,
                                          !.event = Event("succeeded", trial)]
              ELSE [Settled(trial) EXCEPT !.event = Event("succeeded", trial)]
  /\ UNCHANGED <<analyses, competitors, run, statusWrites, rpc, search, probe>>
  /\ UNCHANGED <<limiter, retry>>

\* a failure that is counted and never opens the breaker
Fail_count ==
  /\ breaker.failures < MaxFailures
  /\ \E trial \in BOOLEAN :
       /\ IF trial THEN breaker.trials > 0 ELSE breaker.running > 0
       /\ breaker' = [Settled(trial) EXCEPT !.failures = @ + 1,
                                            !.lastFailureTime = breaker.now,
                                            !.event = Event("failed", trial)]
  /\ UNCHANGED <<analyses, competitors, run, statusWrites, rpc, search, probe>>
  /\ UNCHANGED <<limiter, retry>>

\* fn rejects for one call in flight: failures++, lastFailureTime = Date.now(), and the
\* breaker opens when failures >= threshold
FailCall ==
  /\ breaker.failures < MaxFailures
  /\ \E trial \in BOOLEAN :
       /\ IF trial THEN breaker.trials > 0 ELSE breaker.running > 0
       /\ breaker' = [Settled(trial) EXCEPT
                        !.failures = @ + 1,
                        !.lastFailureTime = breaker.now,
                        !.state = IF breaker.failures + 1 >= breaker.threshold
                                    THEN "open" ELSE @,
                        !.event = Event("failed", trial)]
  /\ UNCHANGED <<analyses, competitors, run, statusWrites, rpc, search, probe>>
  /\ UNCHANGED <<limiter, retry>>

\* reset()
ResetBreaker ==
  /\ breaker' = [breaker EXCEPT !.state = "closed", !.failures = 0, !.lastFailureTime = 0,
                                !.event = Event("reset", FALSE)]
  /\ UNCHANGED <<analyses, competitors, run, statusWrites, rpc, search, probe>>
  /\ UNCHANGED <<limiter, retry>>

\* Date.now() advances
Tick ==
  /\ breaker.now < IdleBreaker.now + MaxTicks * TickMs
  /\ breaker' = [breaker EXCEPT !.now = @ + TickMs, !.event = Event("tick", FALSE)]
  /\ UNCHANGED <<analyses, competitors, run, statusWrites, rpc, search, probe>>
  /\ UNCHANGED <<limiter, retry>>

NextBreaker ==
  \/ Execute
  \/ Succeed
  \/ FailCall
  \/ ResetBreaker
  \/ Tick

\* one CircuitBreaker, its calls overlapping
SpecBreaker == InitBreaker /\ [][NextBreaker]_vars

----------------------------------------------------------------------------
(* Properties of the CircuitBreaker *)

\* the step is a call of execute, up to the point where it throws or invokes fn
ExecuteCalled == breaker'.event.what \in {"invoked", "rejected"}

\* the time since the last recorded failure
Elapsed == breaker.now - breaker.lastFailureTime

\* the step is the success of a call that took the breaker to half-open
TrialSucceeds == breaker'.event = [what |-> "succeeded", trial |-> TRUE]

\* C26 as stated: when resetTimeout has passed since the last failure of an open breaker,
\* the next call of execute is made in half-open state, and when that call succeeds the
\* breaker is closed with its failure count 0; a closed breaker invokes what it is given
C26_TrialSuccessCloses ==
  [][/\ (ExecuteCalled /\ breaker.state = "open" /\ Elapsed >= breaker.resetTimeout) =>
          breaker'.state = "half-open" /\ breaker'.event.what = "invoked"
     /\ TrialSucceeds => breaker'.state = "closed" /\ breaker'.failures = 0
     /\ (ExecuteCalled /\ breaker.state = "closed") => breaker'.event.what = "invoked"
    ]_vars

\* C26, amended: when resetTimeout has passed since the last failure of an open breaker,
\* the next call of execute is made in half-open state; when that call succeeds while
\* the breaker is still half-open, the breaker is closed with its failure count 0; when
\* another call has failed in the meantime and opened the breaker again, or reset() has
\* closed it, the success changes neither the state nor the failure count; a closed
\* breaker invokes what it is given
C26_TrialSuccessClosesIfStillHalfOpen ==
  [][/\ (ExecuteCalled /\ breaker.state = "open" /\ Elapsed >= breaker.resetTimeout) =>
          /\ breaker'.state = "half-open"
          /\ breaker'.event.what = "invoked"
          /\ breaker'.trials = breaker.trials + 1
          /\ breaker'.failures = breaker.failures
     /\ (TrialSucceeds /\ breaker.state = "half-open") =>
          breaker'.state = "closed" /\ breaker'.failures = 0
     /\ (TrialSucceeds /\ breaker.state # "half-open") =>
          breaker'.state = breaker.state /\ breaker'.failures = breaker.failures
     /\ (ExecuteCalled /\ breaker.state = "closed") =>
          /\ breaker'.event.what = "invoked"
          /\ breaker'.running = breaker.running + 1
          /\ breaker'.state = "closed"
    ]_vars

\* a breaker that had opened is closed again by the success of its half-open call
C26_Witness ==
  /\ breaker.event = [what |-> "succeeded", trial |-> TRUE]
  /\ breaker.state = "closed"
  /\ breaker.failures = 0
  /\ breaker.lastFailureTime > 0
  /\ breaker.threshold = 5
  /\ breaker.now - breaker.lastFailureTime >= 30000

\* C29: a call of execute on an open breaker, made less than resetTimeout after the last
\* recorded failure, throws without invoking the wrapped function and leaves the state,
\* the failure count and lastFailureTime as they were
C29_OpenRejects ==
  [][(ExecuteCalled /\ breaker.state = "open" /\ Elapsed < breaker.resetTimeout) =>
       /\ breaker'.event.what = "rejected"
       /\ breaker'.running = breaker.running
       /\ breaker'.trials = breaker.trials
       /\ breaker'.state = "open"
       /\ breaker'.failures = breaker.failures
       /\ breaker'.lastFailureTime = breaker.lastFailureTime
    ]_vars

\* an open breaker has just refused a call, 20 s after its last failure
C29_Witness ==
  /\ breaker.event.what = "rejected"
  /\ breaker.state = "open"
  /\ breaker.now - breaker.lastFailureTime = 20000
  /\ breaker.failures >= breaker.threshold

\* C30: after every step of overlapping execute calls and resets, an open or half-open
\* breaker has failures >= threshold and a closed one has failures < threshold; and the
\* success of a call on a closed breaker leaves the failure count as it was
C30_StateMatchesFailures ==
  [][/\ breaker'.state \in {"open", "half-open"} => breaker'.failures >= breaker'.threshold
     /\ breaker'.state = "closed" => breaker'.failures < breaker'.threshold
     /\ breaker'.state \in {"closed", "open", "half-open"}
     /\ (breaker'.event.what = "succeeded" /\ breaker.state = "closed") =>
          breaker'.failures = breaker.failures /\ breaker'.state = "closed"
    ]_vars

\* a call succeeded on a closed breaker that holds failures, while another call is in
\* flight
C30_Witness ==
  /\ breaker.event.what = "succeeded"
  /\ breaker.state = "closed"
  /\ breaker.failures > 0
  /\ breaker.running + breaker.trials > 0

----------------------------------------------------------------------------
(* Properties of a rejected delete and of the competitors' analysisId *)

\* the delete request in hand is one the procedure rejects: no analysis with the id is
\* stored, or the stored one belongs to another user
DeleteToReject ==
  /\ rpc.op = "delete"
  /\ rpc.pc \in {"deleteCompetitors", "deleteAnalysis"}
  /\ \A a \in analyses : a.id = rpc.id => a.userId # rpc.userId

\* C27 as stated: no step of a delete that is rejected, for an id that is not stored or
\* for the analysis of another user, removes an analysis row or a competitor row
C27_RejectedDeleteLeavesStore ==
  [][(DeleteToReject /\ rpc' # rpc) =>
       analyses' = analyses /\ competitors' = competitors]_vars

\* C28 as stated: the analysisId of every stored competitor row is the id of a stored
\* analysis, also while a delete and the run of the same analysis are interleaved
C28_CompetitorsHaveAnalysis ==
  \A i \in 1..Len(competitors) :
    \E a \in analyses : a.id = competitors[i].analysisId

====
